---- MODULE Spec2Model ----
(***************************************************************************)
(* A model of the eventual workflow runtime: the WorkflowExecutor (replay  *)
(* of a history against a workflow program, start / continue) and the      *)
(* orchestrator that drives executions from their queues.                   *)
(*                                                                          *)
(* A workflow program is a sequence of stages.  In a stage the workflow     *)
(* requests the stage's eventuals one after the other in one synchronous    *)
(* segment and then awaits all of them (Promise.all); when the last stage   *)
(* is resolved the workflow returns, when an awaited eventual fails the     *)
(* workflow throws.                                                         *)
(***************************************************************************)
EXTENDS Integers, Sequences, FiniteSets, TLC

VARIABLES ex, fed, out, resultOnly, interp, bucket, got, currentRun, lastCall,
          workflowOf, store, queue, timers, activities, reported, hist,
          executionHistory, runs, lastRun, failedExecutionIds,
          claims, working, workerLog,
          workflowQueue, orchestrations, submitted, scheduling

execVars == <<ex, fed, out, resultOnly, interp, bucket, got, currentRun, lastCall>>
orchVars == <<workflowOf, store, queue, timers, activities, reported, hist,
              executionHistory, runs, lastRun, failedExecutionIds,
              claims, working, workerLog>>
queueVars == <<workflowQueue, orchestrations, submitted, scheduling>>
vars == <<execVars, orchVars, queueVars>>

(***************************************************************************)
(* Bounds                                                                   *)
(***************************************************************************)
MaxFed == 3        \* events fed to one executor over start and continue
MaxBatch == 2      \* events handed to one call of continue, or to one orchestrator run
MaxRuns == 4       \* orchestrator runs
MaxQueue == 1      \* signals waiting on one execution queue
MaxDeliveries == 2 \* deliveries of one task request to the task worker
MaxMessages == 3   \* workflow tasks sent to the workflow queue
MaxInvocations == 2 \* orchestrator invocations that can be active at once
MaxRequests == 2   \* task requests started for one execution
MaxCommands == 2   \* task commands handed to one call of processCommands
MaxHistory == 3    \* events of the history handed to interpret
MaxBlob == 2       \* events of one history object

(***************************************************************************)
(* Events, calls, commands, results                                        *)
(***************************************************************************)
\* time is the untilTime of a TimerScheduled, the timeoutTime of a WorkflowStarted
\* and the timestamp of a synthetic event; 0 where it does not matter.
Ev(type, seq, name, id) == [type |-> type, seq |-> seq, name |-> name, id |-> id, time |-> 0]

withTime(e, t) == [e EXCEPT !.time = t]

NoEvent == Ev("None", -1, "", "")

TaskScheduled(seq, name) == Ev("TaskScheduled", seq, name, "")
TimerScheduled(seq) == Ev("TimerScheduled", seq, "", "")
ChildWorkflowScheduled(seq, name) == Ev("ChildWorkflowScheduled", seq, name, "")
SignalSent(seq, signalId) == Ev("SignalSent", seq, signalId, "")
ExpectSignalStarted(seq, signalId) == Ev("ExpectSignalStarted", seq, signalId, "")
ExpectSignalTimedOut(seq, signalId) == Ev("ExpectSignalTimedOut", seq, signalId, "")
TaskSucceeded(seq) == Ev("TaskSucceeded", seq, "", "")
TaskFailed(seq) == Ev("TaskFailed", seq, "", "")
TimerCompleted(seq) == Ev("TimerCompleted", seq, "", "")
ChildWorkflowSucceeded(seq) == Ev("ChildWorkflowSucceeded", seq, "", "")
ChildWorkflowFailed(seq) == Ev("ChildWorkflowFailed", seq, "", "")
SignalReceived(signalId, id) == Ev("SignalReceived", -1, signalId, id)
WorkflowTimedOut(id) == Ev("WorkflowTimedOut", -1, "", id)
WorkflowRunStarted(id) == Ev("WorkflowRunStarted", -1, "", id)
WorkflowStarted(id) == Ev("WorkflowStarted", -1, "", id)
WorkflowRunCompleted(id) == Ev("WorkflowRunCompleted", -1, "", id)
WorkflowSucceeded(id) == Ev("WorkflowSucceeded", -1, "", id)
WorkflowFailed(error, id) == Ev("WorkflowFailed", -1, error, id)

isWorkflowStarted(e) == e.type = "WorkflowStarted"

isScheduledEvent(e) ==
    e.type \in {"ChildWorkflowScheduled", "SignalSent", "TaskScheduled", "TimerScheduled",
                "ExpectSignalStarted"}

isCompletionEvent(e) ==
    e.type \in {"ChildWorkflowFailed", "ChildWorkflowSucceeded", "SignalReceived",
                "TaskSucceeded", "TaskFailed", "TaskHeartbeatTimedOut", "TimerCompleted",
                "WorkflowTimedOut", "WorkflowRunStarted", "ExpectSignalTimedOut"}

isHistoryEvent(e) == isCompletionEvent(e) \/ isScheduledEvent(e)

\* `${seq}_${type}` for a history event that has a seq, the event's id otherwise.
getEventId(e) ==
    IF isHistoryEvent(e) /\ e.seq # -1 THEN ToString(e.seq) \o "_" \o e.type ELSE e.id

Call(kind, name) == [kind |-> kind, name |-> name]
TaskCall(name) == Call("task", name)
TimerCall == Call("timer", "")
ChildCall(name) == Call("child", name)
ExpectSignalCall(signalId) == Call("expectSignal", signalId)
\* expectSignal with timeoutSeconds
ExpectSignalTimeoutCall(signalId) == Call("expectSignalTimeout", signalId)

NoResult == [kind |-> "none", val |-> ""]
Resolved(v) == [kind |-> "resolved", val |-> v]
Failed(e) == [kind |-> "failed", val |-> e]

isFailed(r) == r.kind = "failed"

\* An error is written by the name of its class.  DeterminismError and
\* WorkflowTimeout are system errors; an error thrown by the workflow's own
\* code, and the Timeout an eventual fails with, are not.
extendsSystemError(err) == err \in {"DeterminismError", "WorkflowTimeout"}

\* error.name: the timeout of the workflow and the timeout of an eventual both
\* carry the name Timeout.
errorName(err) == IF err = "WorkflowTimeout" THEN "Timeout" ELSE err

(***************************************************************************)
(* iterator(elms, predicate): a cursor over the elements that satisfy the  *)
(* predicate.  which = "scheduled" is the iterator `expected`, which =      *)
(* "result" is the iterator `events`.                                       *)
(***************************************************************************)
Matches(which, e) ==
    IF which = "scheduled" THEN isScheduledEvent(e) ELSE isCompletionEvent(e)

RECURSIVE seek(_, _, _)
seek(elms, cursor, which) ==
    IF cursor <= Len(elms) /\ ~Matches(which, elms[cursor])
    THEN seek(elms, cursor + 1, which)
    ELSE cursor

hasNext(elms, cursor, which) == seek(elms, cursor, which) <= Len(elms)

(***************************************************************************)
(* Eventual definitions                                                     *)
(***************************************************************************)
\* The eventuals that emit a command when requested; the others (expect
\* signal) only register triggers.
generateCommands(call) ==
    call.kind \in {"task", "timer", "child", "sendSignal", "expectSignalTimeout"}

Command(call, seq) == [kind |-> call.kind, name |-> call.name, seq |-> seq]

\* isCorresponding without the comparison of the names.
isCorresponding_anyName(event, seq, call) ==
    IF event.seq # seq THEN FALSE
    ELSE IF event.type = "TaskScheduled" THEN call.kind = "task"
    ELSE IF event.type = "ChildWorkflowScheduled" THEN call.kind = "child"
    ELSE IF event.type = "TimerScheduled" THEN call.kind = "timer"
    ELSE IF event.type = "SignalSent" THEN call.kind = "sendSignal"
    ELSE IF event.type = "ExpectSignalStarted" THEN call.kind = "expectSignalTimeout"
    ELSE FALSE

isCorresponding(event, seq, call) ==
    IF event.seq # seq THEN FALSE
    ELSE IF event.type = "TaskScheduled" THEN call.kind = "task" /\ call.name = event.name
    ELSE IF event.type = "ChildWorkflowScheduled" THEN call.kind = "child" /\ call.name = event.name
    ELSE IF event.type = "TimerScheduled" THEN call.kind = "timer"
    ELSE IF event.type = "SignalSent" THEN call.kind = "sendSignal" /\ call.name = event.name
    ELSE IF event.type = "ExpectSignalStarted"
    THEN call.kind = "expectSignalTimeout" /\ call.name = event.name
    ELSE FALSE

\* The result an event trigger of the eventual gives for an event of the
\* eventual's seq; NoResult when the eventual has no trigger for the type.
EventTriggerResult(call, event) ==
    IF call.kind = "task" /\ event.type = "TaskSucceeded" THEN Resolved("ok")
    ELSE IF call.kind = "task" /\ event.type \in {"TaskFailed", "TaskHeartbeatTimedOut"} THEN Failed("Error")
    ELSE IF call.kind = "timer" /\ event.type = "TimerCompleted" THEN Resolved("ok")
    ELSE IF call.kind = "child" /\ event.type = "ChildWorkflowSucceeded" THEN Resolved("ok")
    ELSE IF call.kind = "child" /\ event.type = "ChildWorkflowFailed" THEN Failed("Error")
    ELSE IF call.kind = "expectSignalTimeout" /\ event.type = "ExpectSignalTimedOut"
    THEN Failed("Timeout")
    ELSE NoResult

(***************************************************************************)
(* WorkflowExecutor                                                         *)
(***************************************************************************)
NewExecutor(workflow, history) ==
    [ workflow |-> workflow,      \* the program
      history |-> history,
      nextSeq |-> 0,
      expected |-> 1,             \* cursor of the iterator over scheduled events
      events |-> 1,               \* cursor of the iterator over result events
      activeEventuals |-> {},     \* [seq, call] of the eventuals not yet resolved
      started |-> FALSE,
      stopped |-> FALSE,
      result |-> NoResult,
      override |-> NoResult,      \* the result handed to currentRun.resolve first
      commandsToEmit |-> <<>>,
      pc |-> 0,                   \* stage the workflow awaits; Len + 1 when it ended
      awaiting |-> {},            \* seqs of the current stage still pending
      stageFailed |-> FALSE,      \* an eventual of the current stage failed
      stageError |-> "",          \* the error of the first eventual of the stage that failed
      run |-> 0,                  \* number of runs begun
      runBase |-> 0,              \* nextSeq when the current run began
      runIdx |-> 0,               \* eventuals requested so far in the current run
      calls |-> <<>>,             \* log of the requests: seq, run, index, matched event,
                                  \* number of events applied before the request
      applied |-> <<>> ]          \* log of the events given to tryCommitResultEvent

\* resolveWorkflow that never halts the executor.
resolveWorkflow_noStop(e, result) == [e EXCEPT !.result = result]

resolveWorkflow(e, result) ==
    IF isFailed(result) /\ extendsSystemError(result.val)
    THEN [e EXCEPT !.result = result, !.stopped = TRUE,
                   !.override = IF @ = NoResult THEN result ELSE @]
    ELSE [e EXCEPT !.result = result]

registerEventualCall(e, call) ==
    LET seq == e.nextSeq
        check == generateCommands(call)
        matched == check /\ hasNext(e.history, e.expected, "scheduled")
        pos == seek(e.history, e.expected, "scheduled")
        expected == IF matched THEN e.history[pos] ELSE NoEvent
        ok == matched => isCorresponding(expected, seq, call)
        e1 == [e EXCEPT !.nextSeq = seq + 1,
                        !.expected = IF matched THEN pos + 1 ELSE @,
                        !.commandsToEmit = IF check /\ ~matched
                                           THEN Append(@, Command(call, seq)) ELSE @,
                        !.activeEventuals = @ \cup {[seq |-> seq, call |-> call]},
                        !.awaiting = @ \cup {seq},
                        !.runIdx = @ + 1,
                        !.calls = Append(@, [seq |-> seq, call |-> call, run |-> e.run,
                                             idx |-> e.runIdx, base |-> e.runBase,
                                             expected |-> expected, ok |-> ok,
                                             at |-> Len(e.applied)])]
    IN  IF ok THEN e1 ELSE resolveWorkflow(e1, Failed("DeterminismError"))

RECURSIVE registerCalls(_, _)
registerCalls(e, calls) ==
    IF calls = <<>> THEN e
    ELSE registerCalls(registerEventualCall(e, Head(calls)), Tail(calls))

\* The workflow function: runs from where it is suspended to its next
\* suspension point, or to its end.
advanceWorkflow(e) ==
    LET n == Len(e.workflow)
    IN  IF e.pc > n THEN e
        ELSE IF e.stageFailed
             THEN resolveWorkflow([e EXCEPT !.pc = n + 1, !.awaiting = {}],
                                  Failed(e.stageError))
        ELSE IF e.awaiting # {} THEN e
        ELSE IF e.pc = n
             THEN resolveWorkflow([e EXCEPT !.pc = n + 1], Resolved("done"))
        ELSE registerCalls([e EXCEPT !.pc = @ + 1], e.workflow[e.pc + 1])

\* promise.resolve(result) of an active eventual: deactivateEventual, then the
\* promise the workflow holds settles.
resolveEventual(e, seq, result) ==
    [e EXCEPT !.activeEventuals = {a \in @ : a.seq # seq},
              !.stageFailed = @ \/ (seq \in e.awaiting /\ isFailed(result)),
              !.stageError = IF ~e.stageFailed /\ seq \in e.awaiting /\ isFailed(result)
                             THEN result.val ELSE @,
              !.awaiting = @ \ {seq}]

RECURSIVE resolveAll(_, _, _)
resolveAll(e, seqs, result) ==
    IF seqs = {} THEN e
    ELSE LET s == CHOOSE x \in seqs : \A y \in seqs : x <= y
         IN  resolveAll(resolveEventual(e, s, result), seqs \ {s}, result)

tryCommitResultEvent(e0, event) ==
    LET e == [e0 EXCEPT !.applied = Append(@, event)]
    IN  IF event.type = "WorkflowTimedOut"
        THEN resolveWorkflow(e, Failed("WorkflowTimeout"))
        ELSE IF event.type = "WorkflowRunStarted" THEN e
        ELSE IF event.type = "SignalReceived"
        THEN resolveAll(e, {a.seq : a \in {b \in e.activeEventuals :
                                /\ b.call.kind \in {"expectSignal", "expectSignalTimeout"}
                                /\ b.call.name = event.name}},
                        Resolved("ok"))
        ELSE IF event.seq >= e.nextSeq
        THEN resolveWorkflow(e, Failed("DeterminismError"))
        ELSE LET act == {a \in e.activeEventuals : a.seq = event.seq}
                 res == IF act = {} THEN NoResult
                        ELSE EventTriggerResult((CHOOSE a \in act : TRUE).call, event)
             IN  IF res = NoResult THEN e ELSE resolveEventual(e, event.seq, res)

\* drainHistoryEvents that commits every event before the workflow runs again.
RECURSIVE drainHistoryEvents_noYield(_)
drainHistoryEvents_noYield(e) == IF hasNext(e.history, e.events, "result") /\ ~e.stopped THEN drainHistoryEvents_noYield(tryCommitResultEvent([e EXCEPT !.events = seek(e.history, e.events, "result") + 1], e.history[seek(e.history, e.events, "result")])) ELSE advanceWorkflow(e)

RECURSIVE drainHistoryEvents(_)
drainHistoryEvents(e) ==
    IF hasNext(e.history, e.events, "result") /\ ~e.stopped
    THEN LET pos == seek(e.history, e.events, "result")
             e1 == tryCommitResultEvent([e EXCEPT !.events = pos + 1], e.history[pos])
         IN  drainHistoryEvents(advanceWorkflow(e1))
    ELSE e

completeCurrentRun(e) ==
    [e EXCEPT !.result = IF e.override # NoResult THEN e.override ELSE @]

\* startWorkflowRun that numbers the eventuals of every run from 0.
startWorkflowRun_resetSeq(e) ==
    [e EXCEPT !.run = @ + 1, !.runBase = 0, !.runIdx = 0, !.nextSeq = 0,
              !.commandsToEmit = <<>>, !.override = NoResult]

startWorkflowRun(e) ==
    [e EXCEPT !.run = @ + 1, !.runBase = e.nextSeq, !.runIdx = 0,
              !.commandsToEmit = <<>>, !.override = NoResult]

start(e) ==
    completeCurrentRun(drainHistoryEvents(advanceWorkflow(
        startWorkflowRun([e EXCEPT !.started = TRUE]))))

\* continue that builds a new iterator over the result events.
continue_newIterator(e, history) ==
    completeCurrentRun(drainHistoryEvents(
        startWorkflowRun([e EXCEPT !.history = @ \o history, !.events = 1])))

continue(e, history) ==
    completeCurrentRun(drainHistoryEvents(
        startWorkflowRun([e EXCEPT !.history = @ \o history])))

(***************************************************************************)
(* Workflow programs and events of the executor specification              *)
(***************************************************************************)
Programs ==
    { <<<<TaskCall("a")>>>>,
      <<<<TimerCall>>, <<TaskCall("a")>>>>,
      <<<<TaskCall("a"), TaskCall("b")>>>>,
      <<<<TimerCall, TaskCall("b")>>>>,
      <<<<ExpectSignalCall("go")>>, <<TaskCall("a")>>>>,
      <<<<ExpectSignalCall("go")>>, <<ExpectSignalCall("go")>>>> }

ScheduledUniverse ==
    { TaskScheduled(0, "a"), TaskScheduled(1, "a"), TaskScheduled(1, "b"), TimerScheduled(0) }

ResultUniverse ==
    { TaskSucceeded(0), TaskSucceeded(1), TaskFailed(0), TimerCompleted(0),
      SignalReceived("go", "s1"), WorkflowTimedOut("t1") }

EventUniverse == ScheduledUniverse \cup ResultUniverse

SeqsUpTo(S, n) == UNION {[1..k -> S] : k \in 0..n}

(***************************************************************************)
(* Execution store, execution queues and timers                             *)
(***************************************************************************)
Executions == {"p", "c0"}

NoParent == [executionId |-> "", seq |-> -1]

NoExecution ==
    [ status |-> "NONE", workflowName |-> "", inputHash |-> "", parent |-> NoParent,
      result |-> "", error |-> "", endTime |-> -1 ]

\* The workflows of the service, by name.
Workflows ==
    [ sig |-> <<<<ExpectSignalCall("go")>>, <<TaskCall("a")>>>>,
      par |-> <<<<ChildCall("kid")>>>>,
      nap |-> <<<<TimerCall>>>>,
      exp |-> <<<<ExpectSignalTimeoutCall("go")>>>>,
      kid |-> <<<<TaskCall("a")>>>> ]

isRegistered(name) == name \in DOMAIN Workflows

lookupWorkflow(name) == Workflows[name]

hashCode(input) == IF input = "i1" THEN "3b9" ELSE "3ba"

\* formatExecutionId(workflowName, formatChildExecutionName(parentId, seq))
childExecutionId(executionId, seq) == "c" \o ToString(seq)

\* The services an orchestrator run works on.
World(st, q, tm, act, rep) ==
    [store |-> st, queue |-> q, timers |-> tm, activities |-> act, reported |-> rep]

submitExecutionEvents(w, executionId, event) ==
    [w EXCEPT !.queue[executionId] = Append(@, event)]

\* The record of a new execution and its first event.
createExecution(w, executionId, workflowName, input, timeoutTime, parent) ==
    submitExecutionEvents(
        [w EXCEPT !.store[executionId] =
            [NoExecution EXCEPT !.status = "IN_PROGRESS",
                                !.workflowName = workflowName,
                                !.inputHash = hashCode(input),
                                !.parent = parent]],
        executionId, withTime(WorkflowStarted("ws-" \o executionId), timeoutTime))

\* A start that puts the record and sends the first event without a look at
\* the store.
startExecution_put(w, executionId, workflowName, byName, input, timeoutTime, parent) == [w |-> createExecution(w, executionId, workflowName, input, timeoutTime, parent), threw |-> FALSE, alreadyRunning |-> FALSE]

\* A start that takes every existing execution of the name as already running.
startExecution_anyInput(w, executionId, workflowName, byName, input, timeoutTime, parent) == IF w.store[executionId].status # "NONE" THEN [w |-> w, threw |-> FALSE, alreadyRunning |-> TRUE] ELSE [w |-> createExecution(w, executionId, workflowName, input, timeoutTime, parent), threw |-> FALSE, alreadyRunning |-> FALSE]

\* WorkflowClient.startExecution; threw is TRUE when it ends with an exception.
startExecution(w, executionId, workflowName, byName, input, timeoutTime, parent) ==
    IF byName /\ ~isRegistered(workflowName)
    THEN [w |-> w, threw |-> TRUE, alreadyRunning |-> FALSE]
    ELSE IF w.store[executionId].status # "NONE"
    THEN [w |-> w, threw |-> w.store[executionId].inputHash # hashCode(input),
          alreadyRunning |-> w.store[executionId].inputHash = hashCode(input)]
    ELSE [w |-> createExecution(w, executionId, workflowName, input, timeoutTime, parent),
          threw |-> FALSE, alreadyRunning |-> FALSE]

\* startExecution when initializeExecutionLog or submitExecutionEvents ends
\* with an exception: the record was created, the first event was not sent.
startExecutionInterrupted(w, executionId, workflowName, byName, input, timeoutTime, parent) ==
    IF startExecution(w, executionId, workflowName, byName, input, timeoutTime, parent).threw
       \/ startExecution(w, executionId, workflowName, byName, input, timeoutTime,
                         parent).alreadyRunning
    THEN startExecution(w, executionId, workflowName, byName, input, timeoutTime, parent)
    ELSE [w |-> [w EXCEPT !.store[executionId] =
                    createExecution(w, executionId, workflowName, input, timeoutTime,
                                    parent).store[executionId]],
          threw |-> TRUE, alreadyRunning |-> FALSE]

\* An update of the execution record without the condition on the status.
updateExecution_unconditional(w, executionId, status, result, error, now) ==
    [w |-> [w EXCEPT !.store[executionId].status = status,
                     !.store[executionId].result = result,
                     !.store[executionId].error = error,
                     !.store[executionId].endTime = now],
     threw |-> FALSE]

\* The conditional update of the execution record (#status = :in_progress).
updateExecution(w, executionId, status, result, error, now) ==
    IF w.store[executionId].status = "IN_PROGRESS"
    THEN [w |-> [w EXCEPT !.store[executionId].status = status,
                          !.store[executionId].result = result,
                          !.store[executionId].error = error,
                          !.store[executionId].endTime = now],
          threw |-> FALSE]
    ELSE [w |-> w, threw |-> TRUE]

reportCompletionToParent(w, child, parent, event) ==
    [submitExecutionEvents(w, parent.executionId, event)
        EXCEPT !.reported = Append(@, [child |-> child, parent |-> parent.executionId,
                                        event |-> event])]

\* succeedExecution that reports to the parent whether the update took place or not.
succeedExecution_alwaysReport(w, executionId, result, now) ==
    LET u == updateExecution(w, executionId, "SUCCEEDED", result, "", now)
        parent == u.w.store[executionId].parent
    IN  IF parent = NoParent THEN u
        ELSE [w |-> reportCompletionToParent(u.w, executionId, parent,
                        ChildWorkflowSucceeded(parent.seq)),
              threw |-> u.threw]

succeedExecution(w, executionId, result, now) ==
    LET u == updateExecution(w, executionId, "SUCCEEDED", result, "", now)
        parent == u.w.store[executionId].parent
    IN  IF u.threw \/ parent = NoParent THEN u
        ELSE [w |-> reportCompletionToParent(u.w, executionId, parent,
                        ChildWorkflowSucceeded(parent.seq)),
              threw |-> FALSE]

failExecution(w, executionId, error, now) ==
    LET u == updateExecution(w, executionId, "FAILED", "", error, now)
        parent == u.w.store[executionId].parent
    IN  IF u.threw \/ parent = NoParent THEN u
        ELSE [w |-> reportCompletionToParent(u.w, executionId, parent,
                        ChildWorkflowFailed(parent.seq)),
              threw |-> FALSE]

(***************************************************************************)
(* Merging the stored history with the events of a workflow task           *)
(***************************************************************************)
RECURSIVE uniqueEvents(_, _)
uniqueEvents(events, ids) ==
    IF events = <<>> THEN <<>>
    ELSE IF getEventId(Head(events)) \in ids THEN uniqueEvents(Tail(events), ids)
    ELSE <<Head(events)>> \o uniqueEvents(Tail(events), ids \cup {getEventId(Head(events))})

\* filterEvents that takes every task event.
filterEvents_keepAll(historyEvents, taskEvents) == historyEvents \o taskEvents

filterEvents(historyEvents, taskEvents) ==
    historyEvents \o uniqueEvents(taskEvents,
                                  {getEventId(historyEvents[i]) : i \in 1..Len(historyEvents)})

isTimerEvent(e) == e.type \in {"TimerScheduled", "TimerCompleted"}

\* A TimerCompleted at baseTime for every timer whose last event is its
\* TimerScheduled and whose untilTime has passed, in the order of the seqs.
RECURSIVE syntheticFor(_, _, _)
syntheticFor(events, seqs, baseTime) ==
    IF seqs = {} THEN <<>>
    ELSE LET s == CHOOSE x \in seqs : \A y \in seqs : x <= y
             idx == {i \in 1..Len(events) : isTimerEvent(events[i]) /\ events[i].seq = s}
             last == events[CHOOSE i \in idx : \A j \in idx : j <= i]
         IN  (IF last.type = "TimerScheduled" /\ last.time <= baseTime
              THEN <<withTime(TimerCompleted(s), baseTime)>> ELSE <<>>)
             \o syntheticFor(events, seqs \ {s}, baseTime)

generateSyntheticEvents(events, baseTime) ==
    syntheticFor(events,
                 {events[i].seq : i \in {j \in 1..Len(events) : isTimerEvent(events[j])}},
                 baseTime)

interpret(program, history) == start(NewExecutor(program, history))

\* What progressWorkflow returns once the workflow has been interpreted.
progressResult(r, allEvents) ==
    [threw |-> FALSE, result |-> r.result, commands |-> r.commandsToEmit,
     history |-> allEvents]

\* progressWorkflow from the merged input events on.
progressEvents(workflowName, inputEvents, allEvents) ==
    IF \A i \in 1..Len(inputEvents) : ~isWorkflowStarted(inputEvents[i])
    THEN [threw |-> TRUE, result |-> NoResult, commands |-> <<>>, history |-> <<>>]
    ELSE progressResult(interpret(lookupWorkflow(workflowName),
                                  SelectSeq(allEvents, isHistoryEvent)),
                        allEvents)

\* The input events with the synthetic events after them.
withSyntheticEvents(inputEvents, baseTime) ==
    inputEvents \o generateSyntheticEvents(inputEvents, baseTime)

progressInput(workflowName, inputEvents, baseTime) ==
    progressEvents(workflowName, inputEvents, withSyntheticEvents(inputEvents, baseTime))

progressWorkflow(workflowName, historyEvents, taskEvents, baseTime) ==
    progressInput(workflowName, historyEvents \o filterEvents(historyEvents, taskEvents),
                  baseTime)

(***************************************************************************)
(* CommandExecutor and the orchestrator                                     *)
(***************************************************************************)
\* executeCommand: starts what the command asks for and gives the scheduled
\* event of the command.
executeCommand(w, executionId, command, baseTime) ==
    IF command.kind = "child"
    THEN LET st == startExecution(w, childExecutionId(executionId, command.seq),
                                  command.name, TRUE, "i1", 0,
                                  [executionId |-> executionId, seq |-> command.seq])
         IN  [w |-> st.w, threw |-> st.threw,
              event |-> ChildWorkflowScheduled(command.seq, command.name)]
    ELSE IF command.kind = "expectSignalTimeout"
    THEN [w |-> [w EXCEPT !.timers = @ \cup
                    {[executionId |-> executionId,
                      event |-> ExpectSignalTimedOut(command.seq, command.name),
                      at |-> baseTime + 1]}],
          threw |-> FALSE,
          event |-> ExpectSignalStarted(command.seq, command.name)]
    ELSE IF command.kind = "timer"
    THEN [w |-> [w EXCEPT !.timers = @ \cup {[executionId |-> executionId,
                                              event |-> TimerCompleted(command.seq),
                                              at |-> baseTime + 1]}],
          threw |-> FALSE,
          event |-> withTime(TimerScheduled(command.seq), baseTime + 1)]
    ELSE [w |-> [w EXCEPT !.activities = @ \cup {[executionId |-> executionId,
                                                  seq |-> command.seq]}],
          threw |-> FALSE, event |-> TaskScheduled(command.seq, command.name)]

RECURSIVE processCommands(_, _, _, _)
processCommands(w, executionId, commands, baseTime) ==
    IF commands = <<>> THEN [w |-> w, threw |-> FALSE, events |-> <<>>]
    ELSE LET c == executeCommand(w, executionId, Head(commands), baseTime)
             rest == processCommands(c.w, executionId, Tail(commands), baseTime)
         IN  [w |-> rest.w, threw |-> c.threw \/ rest.threw,
              events |-> <<c.event>> \o rest.events]

\* resultEvents that takes no failure for an Error object.
resultEvents_noName(result, runId) ==
    IF result.kind = "failed" THEN <<WorkflowFailed("Error", "wf-" \o runId)>>
    ELSE IF result.kind = "resolved" THEN <<WorkflowSucceeded("wf-" \o runId)>>
    ELSE <<>>

resultEvents(result, runId) ==
    IF result.kind = "failed" THEN <<WorkflowFailed(errorName(result.val), "wf-" \o runId)>>
    ELSE IF result.kind = "resolved" THEN <<WorkflowSucceeded("wf-" \o runId)>>
    ELSE <<>>

\* The events the run yields, in order, and what the run did to the services.
\* The timeout of the execution is scheduled in the run that sees its
\* WorkflowStarted for the first time.
scheduleTimeout_everyRun(w, executionId, history, starts) == IF starts # <<>> /\ starts[1].time # 0 THEN [w EXCEPT !.timers = @ \cup {[executionId |-> executionId, event |-> WorkflowTimedOut("to-" \o executionId), at |-> starts[1].time]}] ELSE w

scheduleTimeout(w, executionId, history, starts) ==
    IF /\ \A i \in 1..Len(history) : ~isWorkflowStarted(history[i])
       /\ starts # <<>>
       /\ starts[1].time # 0
    THEN [w EXCEPT !.timers = @ \cup {[executionId |-> executionId,
                                       event |-> WorkflowTimedOut("to-" \o executionId),
                                       at |-> starts[1].time]}]
    ELSE w

\* The events of a run whose commands have been executed.
yieldCommands(pw, pc, runId) ==
    [w |-> pc.w, threw |-> pc.threw, result |-> pw.result, commands |-> pw.commands,
     yielded |-> <<WorkflowRunStarted("run-" \o runId)>> \o pw.history \o pc.events
                 \o <<WorkflowRunCompleted("rc-" \o runId)>>
                 \o resultEvents(pw.result, runId)]

\* The run from the result of progressWorkflow on.
yieldProgress(w1, executionId, pw, baseTime, runId) ==
    IF pw.threw
    THEN [w |-> w1, threw |-> TRUE, result |-> Failed("DeterminismError"),
          commands |-> <<>>, yielded |-> <<WorkflowRunStarted("run-" \o runId)>>]
    ELSE yieldCommands(pw, processCommands(w1, executionId, pw.commands, baseTime), runId)

executeWorkflowGenerator(w, workflowName, executionId, history, events, baseTime, runId) ==
    IF ~isRegistered(workflowName)
    THEN [w |-> w, threw |-> FALSE, result |-> NoResult, commands |-> <<>>,
          yielded |-> <<WorkflowRunStarted("run-" \o runId),
                        WorkflowFailed("WorkflowNotFound", "wf-" \o runId)>>]
    ELSE yieldProgress(scheduleTimeout(w, executionId, history,
                                       SelectSeq(events, isWorkflowStarted)),
                       executionId,
                       progressWorkflow(workflowName, history, events, baseTime),
                       baseTime, runId)

isResultOfWorkflow(e) == e.type \in {"WorkflowSucceeded", "WorkflowFailed"}

\* partitionExecutionResults that keeps only the new events as the history.
partitionExecutionResults_newOnly(originalHistory, yielded) ==
    LET results == SelectSeq(yielded, isResultOfWorkflow)
        new == uniqueEvents(yielded,
                            {getEventId(originalHistory[i]) : i \in 1..Len(originalHistory)})
    IN  [ updatedHistoryEvents |->
              SelectSeq(new, LAMBDA e : isWorkflowStarted(e) \/ isHistoryEvent(e)),
          newEvents |-> new,
          resultEvent |-> IF results = <<>> THEN NoEvent ELSE results[Len(results)] ]

partitionExecutionResults(originalHistory, yielded) ==
    LET results == SelectSeq(yielded, isResultOfWorkflow)
    IN  [ updatedHistoryEvents |->
              SelectSeq(yielded, LAMBDA e : isWorkflowStarted(e) \/ isHistoryEvent(e)),
          newEvents |->
              uniqueEvents(yielded,
                           {getEventId(originalHistory[i]) : i \in 1..Len(originalHistory)}),
          resultEvent |-> IF results = <<>> THEN NoEvent ELSE results[Len(results)] ]

persistWorkflowResult(w, executionId, resultEvent, now) ==
    IF resultEvent.type = "WorkflowFailed"
    THEN failExecution(w, executionId, resultEvent.name, now)
    ELSE IF resultEvent.type = "WorkflowSucceeded"
    THEN succeedExecution(w, executionId, "done", now)
    ELSE [w |-> w, threw |-> FALSE]

\* One run of the orchestrator for one execution: what it leaves in the
\* services, the history it stores, and whether it ended with an exception.
\* The end of a run whose result has been persisted.
orchestrateResult(gen, part, persisted, history, fault) ==
    IF persisted.threw \/ fault
    THEN [w |-> persisted.w, threw |-> TRUE, history |-> history, newEvents |-> <<>>,
          resultEvent |-> part.resultEvent, result |-> gen.result,
          commands |-> gen.commands]
    ELSE [w |-> persisted.w, threw |-> FALSE, history |-> part.updatedHistoryEvents,
          newEvents |-> part.newEvents, resultEvent |-> part.resultEvent,
          result |-> gen.result, commands |-> gen.commands]

orchestratePersist(gen, part, executionId, history, baseTime, fault) ==
    orchestrateResult(gen, part,
                      persistWorkflowResult(gen.w, executionId, part.resultEvent, baseTime),
                      history, fault)

\* The run from the events the generator yielded on.
orchestrateYielded(gen, executionId, history, baseTime, fault) ==
    IF gen.threw
    THEN [w |-> gen.w, threw |-> TRUE, history |-> history, newEvents |-> <<>>,
          resultEvent |-> NoEvent, result |-> gen.result, commands |-> gen.commands]
    ELSE orchestratePersist(gen, partitionExecutionResults(history, gen.yielded),
                            executionId, history, baseTime, fault)

orchestrateExecution(w, workflowName, executionId, history, events, baseTime, runId, fault) ==
    orchestrateYielded(executeWorkflowGenerator(w, workflowName, executionId, history,
                                                events, baseTime, runId),
                       executionId, history, baseTime, fault)

(***************************************************************************)
(* Task worker                                                              *)
(***************************************************************************)
\* The conditional put of the claim (executionId, seq, retry); retry is 0 in
\* every request the command executor sends.
claimActivity(claimed, request) ==
    [claims |-> claimed \cup {request}, granted |-> request \notin claimed]

\* The worker that runs the handler whether or not the claim was granted.
activityWorker_ignoreClaim(claimed, running, request) ==
    [claims |-> claimActivity(claimed, request).claims,
     working |-> running \cup {request}, ran |-> TRUE]

\* The worker up to the call of the task's handler.
activityWorker(claimed, running, request) ==
    IF ~claimActivity(claimed, request).granted
    THEN [claims |-> claimed, working |-> running, ran |-> FALSE]
    ELSE [claims |-> claimActivity(claimed, request).claims,
          working |-> running \cup {request}, ran |-> TRUE]

\* The result events one invocation submits once the handler has ended.
finishActivity(seq) ==
    { <<TaskSucceeded(seq)>>, <<TaskFailed(seq)>>, <<TaskSucceeded(seq), TaskFailed(seq)>> }

RECURSIVE submitAll(_, _, _)
submitAll(w, executionId, events) ==
    IF events = <<>> THEN w
    ELSE submitAll(submitExecutionEvents(w, executionId, Head(events)), executionId,
                   Tail(events))

\* The log of the worker's invocations: how often each step was taken for
\* each request.
stepsOf(log, request, step) ==
    Cardinality({l \in log : l.request = request /\ l.step = step})

logged(log, request, step) ==
    log \cup {[request |-> request, step |-> step, n |-> stepsOf(log, request, step) + 1]}

deliveriesOf(log, request) ==
    stepsOf(log, request, "handler") + stepsOf(log, request, "rejected")

(***************************************************************************)
(* interpret (interpret.ts): the interpreter of a workflow generator.  The  *)
(* program is one chain of stages; in a stage the workflow creates the      *)
(* stage's calls in order and yields one call (op "one") or all([...]) of   *)
(* the calls (op "all").  A signal handler (onSignal) is registered and not *)
(* awaited, and the handler of onSignalTask calls the task "h"; the         *)
(* predicate of condition(name) is true once a handler of the signal name   *)
(* has run.  Values are written as strings: the output of       *)
(* all([...]) is "[v1,v2]".                                                 *)
(***************************************************************************)
IEv(type, seq, signalId, result) ==
    [type |-> type, seq |-> seq, signalId |-> signalId, name |-> signalId, result |-> result]

ICall(kind, name) == [kind |-> kind, name |-> name]

Stage(op, calls) == [op |-> op, calls |-> calls]

\* The events the iterator resultEvents of interpret goes over.
isInterpretResultEvent(e) ==
    e.type \in {"TaskSucceeded", "TaskFailed", "TimerCompleted", "ConditionTimedOut",
                "ExpectSignalTimedOut", "SignalReceived", "WorkflowTimedOut"}

isInterpretScheduledEvent(e) ==
    e.type \in {"TaskScheduled", "TimerScheduled", "ExpectSignalStarted", "ConditionStarted"}

RECURSIVE seekWhere(_, _, _)
seekWhere(elms, cursor, scheduled) ==
    IF cursor <= Len(elms)
       /\ ~(IF scheduled THEN isInterpretScheduledEvent(elms[cursor])
            ELSE isInterpretResultEvent(elms[cursor]))
    THEN seekWhere(elms, cursor + 1, scheduled)
    ELSE cursor

NewInterpreter(program, history) ==
    [ program |-> program,
      history |-> history,
      pc |-> 0,                \* the stage the main chain awaits; 0 before its first run
      seq |-> 0,
      callTable |-> <<>>,      \* callTable[seq + 1]: the call with the seq and its result
      awaiting |-> <<>>,       \* the calls the chain awaits: their seqs, -1 for a
                               \* condition that was true when it was created
      signalSubscriptions |-> <<>>,   \* in the order of subscription, for all signal ids
      handled |-> <<>>,        \* the payloads the signal handlers were called with
      result |-> NoResult,     \* mainChain.result
      emittedEvents |-> 1,
      resultEvents |-> 1,
      newCalls |-> <<>>,
      calls |-> <<>>,
      threw |-> FALSE,
      applied |-> <<>>,        \* log: the result events committed
      delivered |-> <<>> ]     \* log: per committed signal, the subscriptions it reached

\* The predicate of a condition call.
predicate(st, call) == \E i \in 1..Len(st.handled) : st.handled[i].signalId = call.name

\* collector.pushEventual for a command call.
pushEventual(st, call) ==
    IF call.kind \in {"onSignal", "onSignalTask"}
    THEN [st EXCEPT !.signalSubscriptions =
                        Append(@, [signalId |-> call.name, seq |-> -1,
                                   at |-> Len(st.applied),
                                   task |-> IF call.kind = "onSignalTask" THEN "h" ELSE ""])]
    ELSE IF call.kind = "condition" /\ predicate(st, call)
    THEN [st EXCEPT !.awaiting = Append(@, -1)]
    ELSE [st EXCEPT !.seq = @ + 1,
                    !.callTable = Append(@, [call |-> call, result |-> NoResult]),
                    !.newCalls = Append(@, [call |-> call, seq |-> st.seq]),
                    !.awaiting = Append(@, st.seq),
                    !.signalSubscriptions =
                        IF call.kind = "expectSignal"
                        THEN Append(@, [signalId |-> call.name, seq |-> st.seq,
                                        at |-> Len(st.applied), task |-> ""])
                        ELSE @]

RECURSIVE pushEventuals(_, _)
pushEventuals(st, calls) ==
    IF calls = <<>> THEN st
    ELSE pushEventuals(pushEventual(st, Head(calls)), Tail(calls))

\* tryResolveResult on a condition call stores the result once the predicate
\* is true; here for every condition the chain awaits.
resolveConditions(st) ==
    [st EXCEPT !.callTable =
        [i \in 1..Len(st.callTable) |->
            IF /\ \E k \in 1..Len(st.awaiting) : st.awaiting[k] = i - 1
               /\ st.callTable[i].call.kind = "condition"
               /\ st.callTable[i].result = NoResult
               /\ predicate(st, st.callTable[i].call)
            THEN [st.callTable[i] EXCEPT !.result = Resolved("true")]
            ELSE st.callTable[i]]]

resultOfCall(st, ref) == IF ref = -1 THEN Resolved("true") ELSE st.callTable[ref + 1].result

RECURSIVE joinValues(_, _)
joinValues(st, refs) ==
    IF refs = <<>> THEN ""
    ELSE resultOfCall(st, Head(refs)).val
         \o (IF Len(refs) > 1 THEN "," ELSE "") \o joinValues(st, Tail(refs))

\* tryResolveResult that lists the results of all([...]) from the last member
\* to the first.
tryResolveResult_reversed(st) == IF st.program[st.pc].op = "one" THEN resultOfCall(st, st.awaiting[1]) ELSE IF \A k \in 1..Len(st.awaiting) : resultOfCall(st, st.awaiting[k]).kind = "resolved" THEN Resolved("[" \o joinValues(st, [k \in 1..Len(st.awaiting) |-> st.awaiting[Len(st.awaiting) + 1 - k]]) \o "]") ELSE NoResult

\* tryResolveResult on what the chain awaits: a call, or all([...]).
tryResolveResult(st) ==
    IF st.program[st.pc].op = "one"
    THEN resultOfCall(st, st.awaiting[1])
    ELSE IF \A k \in 1..Len(st.awaiting) : resultOfCall(st, st.awaiting[k]).kind = "resolved"
    THEN Resolved("[" \o joinValues(st, st.awaiting) \o "]")
    ELSE IF \E k \in 1..Len(st.awaiting) : isFailed(resultOfCall(st, st.awaiting[k]))
    THEN resultOfCall(st, st.awaiting[CHOOSE k \in 1..Len(st.awaiting) :
                            /\ isFailed(resultOfCall(st, st.awaiting[k]))
                            /\ \A j \in 1..(k - 1) :
                                  ~isFailed(resultOfCall(st, st.awaiting[j]))])
    ELSE NoResult

\* The chain runs into stage k: it creates the calls of the stage.
advanceChain(st, k) ==
    pushEventuals([st EXCEPT !.pc = k, !.awaiting = <<>>], st.program[k].calls)

\* advance: the main chain runs as far as it can.
RECURSIVE tryAdvanceChain(_)
tryAdvanceChain(st) ==
    IF st.result # NoResult THEN st
    ELSE IF st.pc = 0 THEN tryAdvanceChain(advanceChain(st, 1))
    ELSE IF tryResolveResult(resolveConditions(st)) = NoResult THEN resolveConditions(st)
    ELSE IF isFailed(tryResolveResult(resolveConditions(st)))
              \/ st.pc = Len(st.program)
    THEN [resolveConditions(st) EXCEPT !.result = tryResolveResult(resolveConditions(st))]
    ELSE tryAdvanceChain(advanceChain(resolveConditions(st), st.pc + 1))

advance(st) == tryAdvanceChain([st EXCEPT !.newCalls = <<>>])

\* The subscriptions of the signal id a signal reaches: the expect-signal
\* calls without a result and the handlers.
reachedBy(st, signal) ==
    {k \in 1..Len(st.signalSubscriptions) :
        /\ st.signalSubscriptions[k].signalId = signal.signalId
        /\ st.signalSubscriptions[k].seq # -1
              => st.callTable[st.signalSubscriptions[k].seq + 1].result = NoResult}

\* commitSignal that leaves the handlers out.
commitSignal_waitersOnly(st, signal) == [st EXCEPT !.callTable = [i \in 1..Len(st.callTable) |-> IF \E k \in reachedBy(st, signal) : st.signalSubscriptions[k].seq = i - 1 THEN [st.callTable[i] EXCEPT !.result = Resolved(signal.result)] ELSE st.callTable[i]], !.delivered = Append(@, [event |-> Len(st.applied), subs |-> reachedBy(st, signal)])]

commitSignal(st, signal) ==
    [st EXCEPT
        !.callTable =
            [i \in 1..Len(st.callTable) |->
                IF \E k \in reachedBy(st, signal) : st.signalSubscriptions[k].seq = i - 1
                THEN [st.callTable[i] EXCEPT !.result = Resolved(signal.result)]
                ELSE st.callTable[i]],
        !.handled =
            @ \o [n \in 1..Cardinality({k \in reachedBy(st, signal) :
                                           st.signalSubscriptions[k].seq = -1}) |->
                     [signalId |-> signal.signalId, payload |-> signal.result,
                      event |-> Len(st.applied)]],
        !.delivered = Append(@, [event |-> Len(st.applied), subs |-> reachedBy(st, signal)])]

\* The handlers the signal reaches that call a task.
callingHandlers(st, signal) ==
    {k \in reachedBy(st, signal) :
        st.signalSubscriptions[k].seq = -1 /\ st.signalSubscriptions[k].task # ""}

\* The calls the handlers make while they run are given their seq and are
\* collected like the calls of the chain.
pushHandlerCalls(st, n) ==
    [st EXCEPT
        !.seq = @ + n,
        !.callTable = @ \o [i \in 1..n |-> [call |-> ICall("task", "h"), result |-> NoResult]],
        !.newCalls = @ \o [i \in 1..n |-> [call |-> ICall("task", "h"), seq |-> st.seq + i - 1]]]

\* The result a completion event gives the call of its seq.
completionResult(event) ==
    IF event.type = "TaskSucceeded" THEN Resolved(event.result)
    ELSE IF event.type = "TimerCompleted" THEN Resolved("undefined")
    ELSE IF event.type = "ExpectSignalTimedOut" THEN Failed("Timeout")
    ELSE IF event.type = "ConditionTimedOut" THEN Resolved("false")
    ELSE Failed("Error")

\* commitCompletionEvent that fails the call of a timed out condition.
commitCompletionEvent_timeoutFails(st, event) == IF event.seq >= Len(st.callTable) THEN [st EXCEPT !.threw = TRUE] ELSE IF st.callTable[event.seq + 1].result # NoResult THEN st ELSE [st EXCEPT !.callTable[event.seq + 1].result = IF event.type = "ConditionTimedOut" THEN Failed("Timeout") ELSE completionResult(event)]

commitCompletionEvent(st, event) ==
    IF event.seq >= Len(st.callTable) THEN [st EXCEPT !.threw = TRUE]
    ELSE IF st.callTable[event.seq + 1].result # NoResult THEN st
    ELSE [st EXCEPT !.callTable[event.seq + 1].result = completionResult(event)]

\* The next result event is committed.
commitNext(st, pos) ==
    LET event == st.history[pos]
        s1 == [st EXCEPT !.resultEvents = pos + 1, !.applied = Append(@, event)]
    IN  IF event.type = "SignalReceived"
        THEN pushHandlerCalls(commitSignal(s1, event),
                              Cardinality(callingHandlers(s1, event)))
        ELSE IF event.type = "WorkflowTimedOut"
        THEN [s1 EXCEPT !.result = Failed("Timeout")]
        ELSE commitCompletionEvent(s1, event)

isCorrespondingCall(event, c) ==
    IF event.seq # c.seq THEN FALSE
    ELSE IF event.type = "TaskScheduled" THEN c.call.kind = "task" /\ c.call.name = event.name
    ELSE IF event.type = "TimerScheduled" THEN c.call.kind = "timer"
    ELSE IF event.type = "ExpectSignalStarted"
    THEN c.call.kind = "expectSignal" /\ c.call.name = event.signalId
    ELSE IF event.type = "ConditionStarted" THEN c.call.kind = "condition"
    ELSE FALSE

\* The new calls are matched against the scheduled events of the history;
\* those beyond the scheduled events are returned to the caller.
RECURSIVE matchCalls(_)
matchCalls(st) ==
    IF st.newCalls # <<>> /\ seekWhere(st.history, st.emittedEvents, TRUE) <= Len(st.history)
    THEN IF isCorrespondingCall(st.history[seekWhere(st.history, st.emittedEvents, TRUE)],
                                Head(st.newCalls))
         THEN matchCalls([st EXCEPT !.newCalls = Tail(@),
                                    !.emittedEvents =
                                        seekWhere(st.history, st.emittedEvents, TRUE) + 1])
         ELSE [st EXCEPT !.threw = TRUE]
    ELSE [st EXCEPT !.calls = @ \o st.newCalls, !.newCalls = <<>>]

\* The end of interpret: scheduled events that no call matched are an error.
finishInterpret(st) ==
    IF seekWhere(st.history, st.emittedEvents, TRUE) <= Len(st.history)
    THEN [st EXCEPT !.threw = TRUE]
    ELSE st

\* One pass of the main loop from the result of advance on.
RECURSIVE interpretLoop(_)
interpretPass(a) ==
    IF a.newCalls = <<>> /\ seekWhere(a.history, a.resultEvents, FALSE) > Len(a.history)
    THEN finishInterpret(a)
    ELSE IF a.newCalls = <<>>
    THEN interpretLoop(matchCalls(commitNext(a, seekWhere(a.history, a.resultEvents, FALSE))))
    ELSE interpretLoop(matchCalls(a))

interpretLoop(st) ==
    IF st.threw THEN st
    ELSE IF st.result # NoResult THEN finishInterpret(st)
    ELSE interpretPass(advance(st))

interpretProgram(program, history) == interpretLoop(NewInterpreter(program, history))

(***************************************************************************)
(* The history object of an execution (execution-history-state-store.ts):   *)
(* the events as JSON, one per line.  A text is the sequence of its         *)
(* characters; NL is the line feed, QUOTE the double quote and BACKSLASH    *)
(* the backslash.  The JSON of an event is written                          *)
(* { type seq QUOTE result QUOTE }, the type and the seq one character      *)
(* each.                                                                    *)
(***************************************************************************)
NoSuchKey == [exists |-> FALSE, Body |-> <<>>, events |-> <<>>]

NoRead == [executionId |-> "", written |-> <<>>, events |-> <<>>, threw |-> FALSE]

\* JSON.stringify of the characters of a string.
RECURSIVE stringifyChars(_)
stringifyChars(text) ==
    IF text = <<>> THEN <<>>
    ELSE (IF Head(text) = "NL" THEN <<"BACKSLASH", "n">>
          ELSE IF Head(text) \in {"QUOTE", "BACKSLASH"} THEN <<"BACKSLASH", Head(text)>>
          ELSE <<Head(text)>>) \o stringifyChars(Tail(text))

JSONstringify(e) ==
    <<"{", e.type, ToString(e.seq), "QUOTE">> \o stringifyChars(e.result) \o <<"QUOTE", "}">>

\* lines.join("\n")
RECURSIVE join(_)
join(lines) ==
    IF lines = <<>> THEN <<>>
    ELSE IF Len(lines) = 1 THEN lines[1]
    ELSE lines[1] \o <<"NL">> \o join(Tail(lines))

\* text.split("\n"), line the characters since the last line feed: a text
\* without a line feed, the empty text too, is one line.
RECURSIVE split(_, _)
split(text, line) ==
    IF text = <<>> THEN <<line>>
    ELSE IF Head(text) = "NL" THEN <<line>> \o split(Tail(text), <<>>)
    ELSE split(Tail(text), Append(line, Head(text)))

\* The characters of a JSON string literal without its quotes; ok is false
\* when the literal is not well formed.
RECURSIVE parseChars(_)
parseChars(text) ==
    IF text = <<>> THEN [ok |-> TRUE, chars |-> <<>>]
    ELSE IF Head(text) \in {"QUOTE", "NL"} THEN [ok |-> FALSE, chars |-> <<>>]
    ELSE IF Head(text) = "BACKSLASH"
    THEN IF Len(text) < 2 \/ text[2] \notin {"n", "QUOTE", "BACKSLASH"} \/ ~parseChars(SubSeq(text, 3, Len(text))).ok
         THEN [ok |-> FALSE, chars |-> <<>>]
         ELSE [ok |-> TRUE,
               chars |-> <<IF text[2] = "n" THEN "NL" ELSE text[2]>>
                             \o parseChars(SubSeq(text, 3, Len(text))).chars]
    ELSE IF ~parseChars(Tail(text)).ok THEN [ok |-> FALSE, chars |-> <<>>]
    ELSE [ok |-> TRUE, chars |-> <<Head(text)>> \o parseChars(Tail(text)).chars]

\* JSON.parse of a line: a SyntaxError for a text that is not the JSON of an
\* event, the empty text among them.
JSONparse(line) ==
    IF \/ Len(line) < 6
       \/ line[1] # "{" \/ line[4] # "QUOTE"
       \/ line[Len(line) - 1] # "QUOTE" \/ line[Len(line)] # "}"
       \/ line[3] \notin {ToString(n) : n \in 0..9}
       \/ ~parseChars(SubSeq(line, 5, Len(line) - 2)).ok
    THEN [threw |-> TRUE, value |-> <<>>]
    ELSE [threw |-> FALSE,
          value |-> [type |-> line[2],
                     seq |-> CHOOSE n \in 0..9 : ToString(n) = line[3],
                     result |-> parseChars(SubSeq(line, 5, Len(line) - 2)).chars]]

\* updateHistory: the object put for the events; events is the log of what
\* was written.
updateHistory(events) ==
    [exists |-> TRUE,
     Body |-> join([i \in 1..Len(events) |-> JSONstringify(events[i])]),
     events |-> events]

\* historyEntryToEvents: the Body of an object that was got is a stream, of
\* no characters for an empty object.
historyEntryToEvents(object) ==
    IF \E i \in 1..Len(split(object.Body, <<>>)) : JSONparse(split(object.Body, <<>>)[i]).threw
    THEN [threw |-> TRUE, events |-> <<>>]
    ELSE [threw |-> FALSE,
          events |-> [i \in 1..Len(split(object.Body, <<>>)) |->
                         JSONparse(split(object.Body, <<>>)[i]).value]]

\* getHistory: no object (NoSuchKey) is the empty history.
getHistory(object) ==
    IF ~object.exists THEN [threw |-> FALSE, events |-> <<>>]
    ELSE historyEntryToEvents(object)

(***************************************************************************)
(* Specification of one executor: start once, then continue                *)
(***************************************************************************)
NoRun ==
    [ executionId |-> "", events |-> <<>>, threw |-> FALSE, resultEvent |-> NoEvent,
      result |-> NoResult, commands |-> <<>>, wasTerminal |-> FALSE ]

\* No call of start or continue was made yet.
NoCall == [op |-> "", threw |-> FALSE, fed |-> 0]

InitExec ==
    /\ ex = NewExecutor(<<>>, <<>>)
    /\ fed = <<>>
    /\ out = <<>>
    /\ resultOnly = TRUE
    /\ interp = NewInterpreter(<<>>, <<>>)
    /\ bucket = [e \in {"p"} |-> NoSuchKey]
    /\ got = NoRead
    /\ currentRun = FALSE
    /\ lastCall = NoCall

\* The workflow name is part of the execution id: workflowOf gives it.
InitOrch ==
    /\ workflowOf \in {f \in [Executions -> DOMAIN Workflows \cup {"ghost"}] :
                            f["c0"] = "kid" /\ f["p"] # "kid"}
    /\ store = [e \in Executions |-> NoExecution]
    /\ queue = [e \in Executions |-> <<>>]
    /\ timers = {}
    /\ activities = {}
    /\ reported = <<>>
    /\ hist = [e \in Executions |-> <<>>]
    /\ executionHistory = [e \in Executions |-> <<>>]
    /\ runs = 0
    /\ lastRun = NoRun
    /\ failedExecutionIds = {}
    /\ claims = {}
    /\ working = {}
    /\ workerLog = {}
    /\ workflowQueue = <<>>
    /\ orchestrations = {}
    /\ submitted = 0
    /\ scheduling = <<>>

Init == InitExec /\ InitOrch /\ workflowOf["p"] = "sig"

InitService == InitExec /\ InitOrch

Start ==
    /\ ~ex.started
    /\ \E workflow \in Programs, history \in SeqsUpTo(EventUniverse, MaxBatch) :
          /\ ex' = start(NewExecutor(workflow, history))
          /\ fed' = history
    /\ out' = ex'.commandsToEmit
    /\ UNCHANGED <<resultOnly, interp, bucket, got, currentRun, lastCall, orchVars, queueVars>>

Continue ==
    /\ ex.started
    /\ \E history \in SeqsUpTo(EventUniverse, MaxBatch) \ {<<>>} :
          /\ Len(fed) + Len(history) <= MaxFed
          /\ ex' = continue(ex, history)
          /\ fed' = fed \o history
          /\ resultOnly' = (resultOnly /\ \A i \in 1..Len(history) : isCompletionEvent(history[i]))
    /\ out' = out \o ex'.commandsToEmit
    /\ UNCHANGED <<interp, bucket, got, currentRun, lastCall, orchVars, queueVars>>

Next == Start \/ Continue

\* The calls of start and continue as a caller can make them at any time.
\* running is TRUE while this.currentRun is set: from the call that began a
\* run until the run was completed on the next tick.
\* continue that does not look at currentRun.
continueCall_whileRunning(e, history, running) == IF ~e.started THEN [e |-> e, threw |-> TRUE] ELSE [e |-> drainHistoryEvents(startWorkflowRun([e EXCEPT !.history = @ \o history])), threw |-> FALSE]

continueCall(e, history, running) ==
    IF ~e.started \/ running THEN [e |-> e, threw |-> TRUE]
    ELSE [e |-> drainHistoryEvents(startWorkflowRun([e EXCEPT !.history = @ \o history])),
          threw |-> FALSE]

startCall(e) ==
    IF e.started THEN [e |-> e, threw |-> TRUE]
    ELSE [e |-> drainHistoryEvents(advanceWorkflow(
                    startWorkflowRun([e EXCEPT !.started = TRUE]))),
          threw |-> FALSE]

StartCall ==
    /\ \E workflow \in (IF ex.started THEN {ex.workflow} ELSE Programs),
          history \in (IF ex.started THEN {<<>>} ELSE SeqsUpTo(EventUniverse, MaxBatch)) :
          \E call \in {startCall(IF ex.started THEN ex ELSE NewExecutor(workflow, history))} :
              /\ ex' = call.e
              /\ fed' = IF call.threw THEN fed ELSE history
              /\ currentRun' = IF call.threw THEN currentRun ELSE TRUE
              /\ lastCall' = [op |-> "start", threw |-> call.threw, fed |-> Len(fed')]
    /\ UNCHANGED <<out, resultOnly, interp, bucket, got, orchVars, queueVars>>

ContinueCall ==
    /\ \E history \in SeqsUpTo(ResultUniverse, MaxBatch) \ {<<>>} :
          /\ Len(fed) + Len(history) <= MaxFed
          /\ \E call \in {continueCall(ex, history, currentRun)} :
                /\ ex' = call.e
                /\ fed' = IF call.threw THEN fed ELSE fed \o history
                /\ currentRun' = IF call.threw THEN currentRun ELSE TRUE
                /\ lastCall' = [op |-> "continue", threw |-> call.threw, fed |-> Len(fed')]
    /\ UNCHANGED <<out, resultOnly, interp, bucket, got, orchVars, queueVars>>

\* The next tick after the run's events were applied: the run is completed
\* and its commands are given to the caller.
CompleteCurrentRun ==
    /\ currentRun
    /\ ex' = completeCurrentRun(ex)
    /\ out' = out \o ex'.commandsToEmit
    /\ currentRun' = FALSE
    /\ UNCHANGED <<fed, resultOnly, interp, bucket, got, lastCall, orchVars, queueVars>>

NextLifecycle == StartCall \/ ContinueCall \/ CompleteCurrentRun

SpecLifecycle == Init /\ [][NextLifecycle]_vars

Spec == Init /\ [][Next]_vars

(***************************************************************************)
(* Specification of the service: clients, queues, timers, orchestrator     *)
(***************************************************************************)
\* Time is counted in orchestrator runs.
now == runs

TheWorld == World(store, queue, timers, activities, reported)

SetWorld(w) ==
    /\ store' = w.store
    /\ queue' = w.queue
    /\ timers' = w.timers
    /\ activities' = w.activities
    /\ reported' = w.reported

\* The timeouts the clients give an execution of the workflow: the workflow
\* sig is started without a timeout, the others with or without one.
timeoutsOf(workflowName) == IF workflowName = "sig" THEN {FALSE} ELSE BOOLEAN

\* A client starts the execution "p", by the workflow's name or with the
\* workflow itself, with or without a timeout.
StartExecution ==
    /\ \E input \in {"i1", "i2"}, byName \in BOOLEAN, timeout \in timeoutsOf(workflowOf["p"]) :
          SetWorld(startExecution(TheWorld, "p", workflowOf["p"], byName, input,
                                  IF timeout THEN now + 1 ELSE 0, NoParent).w)
    /\ UNCHANGED <<execVars, queueVars, workflowOf, hist, executionHistory, runs, lastRun,
                   failedExecutionIds, claims, working, workerLog>>

\* The task worker is handed a started task request, possibly again: the
\* invocation that is granted the claim runs the task's handler.
DeliverTask ==
    /\ \E request \in activities :
          /\ deliveriesOf(workerLog, request) < MaxDeliveries
          /\ \E worker \in {activityWorker(claims, working, request)} :
                /\ claims' = worker.claims
                /\ working' = worker.working
                /\ workerLog' = logged(workerLog, request,
                                        IF worker.ran THEN "handler" ELSE "rejected")
    /\ UNCHANGED <<execVars, queueVars, workflowOf, store, queue, timers, activities, reported, hist,
                   executionHistory, runs, lastRun, failedExecutionIds>>

\* The handler of a task ends: the invocation submits the task's result to the
\* execution's queue; when reporting the success ends with an exception after
\* the event was accepted, it submits the failure as well.
FinishTask ==
    /\ \E request \in working : \E events \in finishActivity(request.seq) :
          /\ SetWorld(submitAll(TheWorld, request.executionId, events))
          /\ working' = working \ {request}
          /\ workerLog' = logged(workerLog, request, "finished")
    /\ UNCHANGED <<execVars, queueVars, workflowOf, hist, executionHistory, runs, lastRun,
                   failedExecutionIds, claims>>

\* A client sends the signal "go" to the execution "p" of a workflow that
\* expects it.
SendSignal ==
    /\ workflowOf["p"] \in {"sig", "exp"}
    /\ Len(queue["p"]) < MaxQueue
    /\ SetWorld(submitExecutionEvents(TheWorld, "p", SignalReceived("go", "s1")))
    /\ UNCHANGED <<execVars, queueVars, workflowOf, hist, executionHistory, runs, lastRun,
                   failedExecutionIds, claims, working, workerLog>>

\* The timer client delivers a scheduled event whose time has come.
FireTimer ==
    /\ \E t \in timers :
          /\ t.at <= now
          /\ SetWorld([submitExecutionEvents(TheWorld, t.executionId, t.event)
                          EXCEPT !.timers = @ \ {t}])
    /\ UNCHANGED <<execVars, queueVars, workflowOf, hist, executionHistory, runs, lastRun,
                   failedExecutionIds, claims, working, workerLog>>

\* The orchestrator takes a batch of events from one execution's queue and
\* runs the execution; the batch stays on the queue when the run ends with an
\* exception or when the acknowledgement is lost.
OrchestrateWith(fault) ==
    /\ \E executionId \in Executions :
        \E k \in 1..(IF Len(queue[executionId]) < MaxBatch
                      THEN Len(queue[executionId]) ELSE MaxBatch) :
         \E run \in {orchestrateExecution(TheWorld, workflowOf[executionId], executionId,
                                           hist[executionId],
                                           SubSeq(queue[executionId], 1, k), now,
                                           ToString(runs + 1), fault)} :
              /\ \E ack \in BOOLEAN :
                    SetWorld(IF run.threw \/ ~ack THEN run.w
                             ELSE [run.w EXCEPT !.queue[executionId] =
                                      SubSeq(@, k + 1, Len(@))])
              /\ hist' = [hist EXCEPT ![executionId] = run.history]
              /\ executionHistory' = [executionHistory EXCEPT ![executionId] =
                                          @ \o run.newEvents]
              /\ failedExecutionIds' = IF run.threw THEN {executionId} ELSE {}
              /\ lastRun' = [ executionId |-> executionId,
                              events |-> SubSeq(queue[executionId], 1, k),
                              threw |-> run.threw, resultEvent |-> run.resultEvent,
                              result |-> run.result, commands |-> run.commands,
                              wasTerminal |-> store[executionId].status
                                                \in {"SUCCEEDED", "FAILED"} ]
    /\ runs' = runs + 1
    /\ UNCHANGED <<execVars, queueVars, workflowOf, claims, working, workerLog>>

Orchestrate ==
    /\ runs < MaxRuns
    /\ OrchestrateWith(FALSE)

\* A run in which the store fails when the events and the history of the run
\* are written.
OrchestrateFault ==
    /\ runs < MaxRuns
    /\ OrchestrateWith(TRUE)

NextOrch ==
    \/ StartExecution \/ DeliverTask \/ FinishTask
    \/ SendSignal \/ FireTimer \/ Orchestrate

SpecOrch == InitService /\ [][NextOrch]_vars

\* A start of the execution "p" that fails after the record was created; the
\* client calls StartExecution again.
StartExecutionFails ==
    /\ \E input \in {"i1", "i2"}, byName \in BOOLEAN, timeout \in timeoutsOf(workflowOf["p"]) :
          SetWorld(startExecutionInterrupted(TheWorld, "p", workflowOf["p"], byName, input,
                                             IF timeout THEN now + 1 ELSE 0, NoParent).w)
    /\ UNCHANGED <<execVars, queueVars, workflowOf, hist, executionHistory, runs, lastRun,
                   failedExecutionIds, claims, working, workerLog>>

InitStart == InitExec /\ InitOrch /\ workflowOf["p"] = "nap"

NextStart == StartExecution \/ StartExecutionFails \/ FireTimer \/ Orchestrate

\* A client whose start did not go through calls StartExecution again.
SpecStart == InitStart /\ [][NextStart]_vars /\ WF_vars(StartExecution)

(***************************************************************************)
(* Specification of the service with store faults, for the workflow nap    *)
(***************************************************************************)
InitFault == InitExec /\ InitOrch /\ workflowOf["p"] = "nap"

NextFault == StartExecution \/ FireTimer \/ Orchestrate \/ OrchestrateFault

SpecFault == InitFault /\ [][NextFault]_vars

(***************************************************************************)
(* Specification of the orchestrator invoked with a batch of tasks of       *)
(* several executions, for the workflow par and its child                   *)
(***************************************************************************)
\* The orders in which the executions of a batch are taken up.
Orders == {o \in SeqsUpTo(Executions, Cardinality(Executions)) :
              /\ o # <<>>
              /\ \A i \in 1..Len(o) : \A j \in 1..Len(o) : o[i] = o[j] => i = j}

outcomeOf(run, executionId) ==
    [executionId |-> executionId, threw |-> run.threw, history |-> run.history,
     newEvents |-> run.newEvents]

\* promiseAllSettledPartitioned over the executions of the batch: every
\* execution is orchestrated, whatever the outcome of the others.
RECURSIVE orchestrateAll(_, _, _, _, _, _)
orchestrateRest(run, order, ks, faults, baseTime, runId) ==
    [w |-> orchestrateAll(run.w, Tail(order), ks, faults, baseTime, runId).w,
     outcomes |-> <<outcomeOf(run, Head(order))>>
                    \o orchestrateAll(run.w, Tail(order), ks, faults, baseTime, runId).outcomes]

orchestrateRest_stopAtFailure(run, order, ks, faults, baseTime, runId) ==
    IF run.threw THEN [w |-> run.w, outcomes |-> <<outcomeOf(run, Head(order))>>]
    ELSE orchestrateRest(run, order, ks, faults, baseTime, runId)

\* An orchestrator that gives up the batch at the first execution that fails.
orchestrateAll_stopAtFailure(w, order, ks, faults, baseTime, runId) == IF order = <<>> THEN [w |-> w, outcomes |-> <<>>] ELSE orchestrateRest_stopAtFailure(orchestrateExecution(w, workflowOf[Head(order)], Head(order), hist[Head(order)], SubSeq(queue[Head(order)], 1, ks[Head(order)]), baseTime, runId, faults[Head(order)]), order, ks, faults, baseTime, runId)

orchestrateAll(w, order, ks, faults, baseTime, runId) ==
    IF order = <<>> THEN [w |-> w, outcomes |-> <<>>]
    ELSE orchestrateRest(
            orchestrateExecution(w, workflowOf[Head(order)], Head(order), hist[Head(order)],
                                 SubSeq(queue[Head(order)], 1, ks[Head(order)]),
                                 baseTime, runId, faults[Head(order)]),
            order, ks, faults, baseTime, runId)

\* The ids the orchestrator returns.
failedExecutionIdsOf(outcomes) ==
    {outcomes[i].executionId : i \in {j \in 1..Len(outcomes) : outcomes[j].threw}}

fulfilledOf(outcomes) ==
    {outcomes[i].executionId : i \in {j \in 1..Len(outcomes) : ~outcomes[j].threw}}

outcomeFor(outcomes, e) == outcomes[CHOOSE i \in 1..Len(outcomes) : outcomes[i].executionId = e]

hasOutcome(outcomes, e) == \E i \in 1..Len(outcomes) : outcomes[i].executionId = e

\* The tasks of the executions that were orchestrated without a failure leave
\* the queue.
acknowledge(w, outcomes, ks) ==
    [w EXCEPT !.queue = [e \in Executions |->
        IF e \in fulfilledOf(outcomes)
        THEN SubSeq(w.queue[e], ks[e] + 1, Len(w.queue[e]))
        ELSE w.queue[e]]]

\* One invocation of the orchestrator with tasks of one or more executions;
\* the store may fail while the events of an execution are written.
OrchestrateBatch ==
    /\ runs < MaxRuns
    /\ \E order \in Orders : \E ks \in [Executions -> 1..MaxBatch] :
       \E faults \in [Executions -> BOOLEAN] :
          /\ \A i \in 1..Len(order) : ks[order[i]] <= Len(queue[order[i]])
          /\ \A e \in Executions :
                (\A i \in 1..Len(order) : order[i] # e) => (ks[e] = 1 /\ ~faults[e])
          /\ \E all \in {orchestrateAll(TheWorld, order, ks, faults, now, ToString(runs + 1))} :
                /\ SetWorld(acknowledge(all.w, all.outcomes, ks))
                /\ hist' = [e \in Executions |->
                               IF hasOutcome(all.outcomes, e)
                               THEN outcomeFor(all.outcomes, e).history ELSE hist[e]]
                /\ executionHistory' = [e \in Executions |->
                               IF hasOutcome(all.outcomes, e)
                               THEN executionHistory[e] \o outcomeFor(all.outcomes, e).newEvents
                               ELSE executionHistory[e]]
                /\ failedExecutionIds' = failedExecutionIdsOf(all.outcomes)
                /\ lastRun' = [batch |-> order, faults |-> faults, outcomes |-> all.outcomes]
    /\ runs' = runs + 1
    /\ UNCHANGED <<execVars, queueVars, workflowOf, claims, working, workerLog>>

InitBatch == InitExec /\ InitOrch /\ workflowOf["p"] = "par"

NextBatch == StartExecution \/ FireTimer \/ OrchestrateBatch

SpecBatch == InitBatch /\ [][NextBatch]_vars

(***************************************************************************)
(* Specification of the task worker alone: requests as the command executor *)
(* sends them, invocations of the worker from the claim to the last submit. *)
(***************************************************************************)
TaskSeqs == 0..1

\* The command with seq 1 asks for a heartbeat, the command with seq 0 does not.
heartbeatSeconds(seq) == seq = 1

\* A request builder that numbers the requests of one command.
activityWorkerRequest_countRetries(started, executionId, seq) == [executionId |-> executionId, seq |-> seq, retry |-> Cardinality({r \in started : r.executionId = executionId /\ r.seq = seq})]

\* The request scheduleActivity sends to the worker.
activityWorkerRequest(started, executionId, seq) ==
    [executionId |-> executionId, seq |-> seq, retry |-> 0]

heartbeatMonitor(request) ==
    [type |-> "ActivityHeartbeatMonitor", executionId |-> request.executionId,
     activitySeq |-> request.seq]

\* submit1, flush1: the submit and the log flush of the first finishActivity
\* fail; submit2: the submit of the finishActivity in the catch block fails.
Faults == [submit1 : BOOLEAN, flush1 : BOOLEAN, submit2 : BOOLEAN]

\* A worker that reports an async result like a value.
activityWorkerFinish_asyncAsValue(seq, outcome, f) == [events |-> IF outcome = "threw" THEN <<TaskFailed(seq)>> ELSE <<TaskSucceeded(seq)>>, flushes |-> 1, raised |-> FALSE]

\* The worker from the end of the handler on: the events it submits, in
\* order, the number of log flushes it starts and whether it ends with an
\* exception.
activityWorkerFinish(seq, outcome, f) ==
    IF outcome = "async"
    THEN [events |-> <<>>, flushes |-> 1, raised |-> f.flush1]
    ELSE IF outcome = "threw"
    THEN [events |-> IF f.submit2 THEN <<>> ELSE <<TaskFailed(seq)>>,
          flushes |-> 1, raised |-> f.submit2]
    ELSE IF f.submit1
    THEN [events |-> IF f.submit2 THEN <<>> ELSE <<TaskFailed(seq)>>,
          flushes |-> 2, raised |-> f.submit2]
    ELSE IF f.flush1
    THEN [events |-> IF f.submit2 THEN <<TaskSucceeded(seq)>>
                     ELSE <<TaskSucceeded(seq), TaskFailed(seq)>>,
          flushes |-> 2, raised |-> f.submit2]
    ELSE [events |-> <<TaskSucceeded(seq)>>, flushes |-> 1, raised |-> FALSE]

ended(log) == {l \in log : l.step = "ended"}

\* The command executor starts a task request for the execution "p".
StartActivity ==
    /\ Cardinality(activities) < MaxRequests
    /\ \E seq \in TaskSeqs :
        activities' = activities \cup {activityWorkerRequest(activities, "p", seq)}
    /\ UNCHANGED <<execVars, queueVars, workflowOf, store, queue, timers, reported, hist,
                   executionHistory, runs, lastRun, failedExecutionIds,
                   claims, working, workerLog>>

\* The worker is handed a request: claim, heartbeat monitor, start of the
\* handler.  The timer client of the test environment ends startTimer of a
\* heartbeat monitor with an exception.
InvokeWorker ==
    /\ \E request \in activities : \E timerClient \in {"deployed", "test"} :
          /\ stepsOf(workerLog, request, "handler") + stepsOf(workerLog, request, "rejected")
                + stepsOf(workerLog, request, "startTimerThrew") < MaxDeliveries
          /\ \E worker \in {activityWorker(claims, working, request)} :
                /\ claims' = worker.claims
                /\ IF ~worker.ran
                   THEN /\ workerLog' = logged(workerLog, request, "rejected")
                        /\ UNCHANGED <<working, timers>>
                   ELSE IF heartbeatSeconds(request.seq) /\ timerClient = "test"
                   THEN /\ workerLog' = logged(workerLog, request, "startTimerThrew")
                        /\ UNCHANGED <<working, timers>>
                   ELSE /\ workerLog' = logged(workerLog, request, "handler")
                        /\ working' = worker.working
                        /\ timers' = IF heartbeatSeconds(request.seq)
                                      THEN timers \cup {heartbeatMonitor(request)}
                                      ELSE timers
    /\ UNCHANGED <<execVars, queueVars, workflowOf, store, queue, activities, reported, hist,
                   executionHistory, runs, lastRun, failedExecutionIds>>

\* The handler ends and the invocation runs to its end.
HandlerEnds ==
    /\ \E request \in working : \E outcome \in {"resolved", "threw", "async"} :
       \E f \in Faults : \E fin \in {activityWorkerFinish(request.seq, outcome, f)} :
          /\ SetWorld(submitAll(TheWorld, request.executionId, fin.events))
          /\ working' = working \ {request}
          /\ workerLog' = workerLog \cup
                {[request |-> request, step |-> "ended", outcome |-> outcome,
                  events |-> fin.events, flushes |-> fin.flushes, raised |-> fin.raised]}
    /\ UNCHANGED <<execVars, queueVars, workflowOf, hist, executionHistory, runs, lastRun,
                   failedExecutionIds, claims>>

InitWorker == InitExec /\ InitOrch /\ workflowOf["p"] = "sig"

NextWorker == StartActivity \/ InvokeWorker \/ HandlerEnds

SpecWorker == InitWorker /\ [][NextWorker]_vars

(***************************************************************************)
(* Specification of the command executor on task commands: the calls of     *)
(* scheduleActivity that processCommands starts together, each from one     *)
(* await to the next.  A call to a client is none, issued, fulfilled or     *)
(* rejected; absent is the timeout of a command without timeoutSeconds.     *)
(***************************************************************************)
ActivityTimedOut(seq) == Ev("ActivityTimedOut", seq, "", "")

\* scheduleActivity up to its first await.
scheduleActivity(seq, timeoutSeconds) ==
    IF timeoutSeconds
    THEN [seq |-> seq, timeoutSeconds |-> TRUE, pc |-> "awaitTimeout",
          timeoutStarter |-> "issued", activityStarter |-> "none"]
    ELSE [seq |-> seq, timeoutSeconds |-> FALSE, pc |-> "awaitAll",
          timeoutStarter |-> "absent", activityStarter |-> "issued"]

\* processCommands starts scheduleActivity for every command of the run.
ProcessCommands ==
    /\ scheduling = <<>>
    /\ \E n \in 1..MaxCommands : \E timeouts \in [1..n -> BOOLEAN] :
        scheduling' = [i \in 1..n |-> scheduleActivity(i - 1, timeouts[i])]
    /\ UNCHANGED <<execVars, orchVars, workflowQueue, orchestrations, submitted>>

\* The timer client answers the scheduleEvent of a timeout.
TimerClientSettles ==
    /\ \E i \in 1..Len(scheduling) : \E ok \in BOOLEAN :
        /\ scheduling[i].timeoutStarter = "issued"
        /\ scheduling' = [scheduling EXCEPT ![i].timeoutStarter =
                              IF ok THEN "fulfilled" ELSE "rejected"]
        /\ timers' = IF ok
                      THEN timers \cup {[executionId |-> "p",
                                          event |-> ActivityTimedOut(scheduling[i].seq),
                                          at |-> now + 1]}
                      ELSE timers
    /\ UNCHANGED <<execVars, workflowOf, store, queue, activities, reported, hist,
                   executionHistory, runs, lastRun, failedExecutionIds, claims, working,
                   workerLog, workflowQueue, orchestrations, submitted>>

\* scheduleActivity goes on after the await of the timeout: it starts the
\* activity, or ends with the exception of the timer client.
ResumeAfterTimeout ==
    /\ \E i \in 1..Len(scheduling) :
        /\ scheduling[i].pc = "awaitTimeout"
        /\ scheduling[i].timeoutStarter \in {"fulfilled", "rejected"}
        /\ scheduling' = [scheduling EXCEPT ![i] =
              IF scheduling[i].timeoutStarter = "fulfilled"
              THEN [@ EXCEPT !.pc = "awaitAll", !.activityStarter = "issued"]
              ELSE [@ EXCEPT !.pc = "threw"]]
    /\ UNCHANGED <<execVars, orchVars, workflowQueue, orchestrations, submitted>>

\* The workflow runtime client answers startActivity.
RuntimeClientSettles ==
    /\ \E i \in 1..Len(scheduling) : \E ok \in BOOLEAN :
        /\ scheduling[i].activityStarter = "issued"
        /\ scheduling' = [scheduling EXCEPT ![i].activityStarter =
                              IF ok THEN "fulfilled" ELSE "rejected"]
        /\ activities' = IF ok
                          THEN activities \cup
                                 {activityWorkerRequest(activities, "p", scheduling[i].seq)}
                          ELSE activities
    /\ UNCHANGED <<execVars, workflowOf, store, queue, timers, reported, hist,
                   executionHistory, runs, lastRun, failedExecutionIds, claims, working,
                   workerLog, workflowQueue, orchestrations, submitted>>

\* scheduleActivity goes on after Promise.all: it returns TaskScheduled, or
\* ends with the exception of the runtime client.
ResumeAfterAll ==
    /\ \E i \in 1..Len(scheduling) :
        /\ scheduling[i].pc = "awaitAll"
        /\ scheduling[i].activityStarter \in {"fulfilled", "rejected"}
        /\ scheduling' = [scheduling EXCEPT ![i].pc =
              IF scheduling[i].activityStarter = "fulfilled" THEN "returned" ELSE "threw"]
    /\ UNCHANGED <<execVars, orchVars, workflowQueue, orchestrations, submitted>>

InitCommands == InitExec /\ InitOrch /\ workflowOf["p"] = "sig"

NextCommands ==
    \/ ProcessCommands \/ TimerClientSettles \/ ResumeAfterTimeout
    \/ RuntimeClientSettles \/ ResumeAfterAll

SpecCommands == InitCommands /\ [][NextCommands]_vars

(***************************************************************************)
(* The workflow queue and the invocations of the orchestrator               *)
(*                                                                          *)
(* The queue is an SQS FIFO queue: a message whose group has a message in   *)
(* flight is not delivered, and the messages of a group are delivered in    *)
(* the order they were sent.  A message stays in the queue, in flight,      *)
(* until the invocation that received it returns.                           *)
(***************************************************************************)
batchSize == 2     \* messages of one batch (10 in the deployed event source)

submitWorkflowTask(executionId, n) ==
    [MessageGroupId |-> executionId, executionId |-> executionId, n |-> n]

\* A variant that starts one orchestration per task, without groupBy.
orchestrator_perTask(workflowTasks, inv) == { [inv |-> inv, executionId |-> m.executionId, tasks |-> {m}, status |-> "running"] : m \in workflowTasks }

\* The orchestrations one invocation starts: one per execution id of the batch.
orchestrator(workflowTasks, inv) ==
    { [inv |-> inv, executionId |-> e,
       tasks |-> {m \in workflowTasks : m.executionId = e},
       status |-> "running"] : e \in {m.executionId : m \in workflowTasks} }

messagesOf(q) == {q[i] : i \in 1..Len(q)}

inFlight == UNION {o.tasks : o \in orchestrations}

positionOf(q, m) == CHOOSE i \in 1..Len(q) : q[i] = m

\* The batches the queue may hand to an invocation.
receivable(batch) ==
    /\ batch # {}
    /\ Cardinality(batch) <= batchSize
    /\ \A m \in batch :
        /\ \A f \in inFlight : f.MessageGroupId # m.MessageGroupId
        /\ \A m2 \in messagesOf(workflowQueue) :
               (m2.MessageGroupId = m.MessageGroupId
                    /\ positionOf(workflowQueue, m2) < positionOf(workflowQueue, m))
               => m2 \in batch

orchestrationsOf(inv) == {o \in orchestrations : o.inv = inv}

SubmitWorkflowTask ==
    /\ submitted < MaxMessages
    /\ \E executionId \in Executions :
        workflowQueue' = Append(workflowQueue, submitWorkflowTask(executionId, submitted))
    /\ submitted' = submitted + 1
    /\ UNCHANGED <<execVars, orchVars, orchestrations, scheduling>>

\* An idle invocation receives a batch and starts its orchestrations.
ReceiveTasks ==
    /\ \E inv \in 1..MaxInvocations :
        /\ orchestrationsOf(inv) = {}
        /\ \E batch \in SUBSET messagesOf(workflowQueue) :
            /\ receivable(batch)
            /\ orchestrations' = orchestrations \cup orchestrator(batch, inv)
    /\ UNCHANGED <<execVars, orchVars, workflowQueue, submitted, scheduling>>

\* orchestrateExecution of one execution settles.
SettleExecution ==
    /\ \E o \in orchestrations : \E status \in {"fulfilled", "rejected"} :
        /\ o.status = "running"
        /\ orchestrations' = (orchestrations \ {o}) \cup {[o EXCEPT !.status = status]}
    /\ UNCHANGED <<execVars, orchVars, workflowQueue, submitted, scheduling>>

\* All orchestrations of an invocation are settled: it returns the failed
\* execution ids; their messages become visible again, the others are deleted.
ReturnInvocation ==
    /\ \E inv \in 1..MaxInvocations :
        /\ orchestrationsOf(inv) # {}
        /\ \A o \in orchestrationsOf(inv) : o.status # "running"
        /\ failedExecutionIds' =
               {o.executionId : o \in {r \in orchestrationsOf(inv) : r.status = "rejected"}}
        /\ workflowQueue' = SelectSeq(workflowQueue,
               LAMBDA m : \A o \in orchestrationsOf(inv) :
                              o.status = "fulfilled" => m \notin o.tasks)
        /\ orchestrations' = orchestrations \ orchestrationsOf(inv)
    /\ UNCHANGED <<execVars, workflowOf, store, queue, timers, activities, reported, hist,
                   executionHistory, runs, lastRun, claims, working, workerLog, submitted,
                   scheduling>>

InitQueue == InitExec /\ InitOrch /\ workflowOf["p"] = "sig"

NextQueue == SubmitWorkflowTask \/ ReceiveTasks \/ SettleExecution \/ ReturnInvocation

SpecQueue == InitQueue /\ [][NextQueue]_vars


(***************************************************************************)
(* Specification of interpret: one call on a program and a history          *)
(***************************************************************************)
InterpretPrograms ==
    { <<Stage("all", <<ICall("task", "a"), ICall("task", "b")>>)>>,
      <<Stage("one", <<ICall("onSignal", "go"), ICall("condition", "go")>>)>>,
      <<Stage("one", <<ICall("expectSignal", "go")>>),
        Stage("one", <<ICall("expectSignal", "go")>>)>>,
      <<Stage("all", <<ICall("onSignal", "go"), ICall("expectSignal", "go"),
                       ICall("expectSignal", "go")>>)>>,
      <<Stage("one", <<ICall("task", "a")>>), Stage("one", <<ICall("timer", "")>>)>>,
      <<Stage("all", <<ICall("condition", "go"), ICall("task", "b")>>)>>,
      <<Stage("one", <<ICall("onSignalTask", "go"), ICall("task", "a")>>)>> }

InterpretEvents ==
    { [IEv("TaskScheduled", 0, "", "") EXCEPT !.name = "a"],
      IEv("ConditionStarted", 0, "", ""),
      IEv("TaskSucceeded", 0, "", "A"), IEv("TaskSucceeded", 1, "", "B"),
      IEv("TaskFailed", 0, "", ""), IEv("TimerCompleted", 1, "", ""),
      IEv("ConditionTimedOut", 0, "", ""), IEv("ExpectSignalTimedOut", 0, "go", ""),
      IEv("SignalReceived", -1, "go", "x"), IEv("SignalReceived", -1, "go", "y") }

Interpret ==
    /\ interp.program = <<>>
    /\ \E program \in InterpretPrograms, history \in SeqsUpTo(InterpretEvents, MaxHistory) :
          interp' = interpretProgram(program, history)
    /\ UNCHANGED <<ex, fed, out, resultOnly, bucket, got, currentRun, lastCall, orchVars,
                   queueVars>>

NextInterpret == Interpret

SpecInterpret == Init /\ [][NextInterpret]_vars

(***************************************************************************)
(* Specification of the history store: objects are put and got             *)
(***************************************************************************)
BlobPayloads == { <<>>, <<"a">>, <<"NL">>, <<"QUOTE", "BACKSLASH">>, <<"BACKSLASH", "n">> }

BlobEvents ==
    {[type |-> "TaskSucceeded", seq |-> 0, result |-> r] : r \in BlobPayloads}
        \cup { [type |-> "WorkflowStarted", seq |-> 0, result |-> <<>>],
               [type |-> "TimerCompleted", seq |-> 1, result |-> <<>>] }

UpdateHistory ==
    /\ \E executionId \in DOMAIN bucket, events \in SeqsUpTo(BlobEvents, MaxBlob) :
          bucket' = [bucket EXCEPT ![executionId] = updateHistory(events)]
    /\ got' = NoRead
    /\ UNCHANGED <<ex, fed, out, resultOnly, interp, currentRun, lastCall, orchVars,
                   queueVars>>

GetHistory ==
    /\ \E executionId \in DOMAIN bucket :
          got' = [executionId |-> executionId,
                  written |-> bucket[executionId].events,
                  events |-> getHistory(bucket[executionId]).events,
                  threw |-> getHistory(bucket[executionId]).threw]
    /\ UNCHANGED <<ex, fed, out, resultOnly, interp, bucket, currentRun, lastCall, orchVars,
                   queueVars>>

NextHistory == UpdateHistory \/ GetHistory

SpecHistory == Init /\ [][NextHistory]_vars

(***************************************************************************)
(* Properties of the executor                                               *)
(***************************************************************************)
FullRun == start(NewExecutor(ex.workflow, fed))

SameAsFullRun == FullRun.result = ex.result /\ FullRun.commandsToEmit = out

\* C1 (as stated): for every history H and every split H = H1 ++ H2, start
\* with H yields the same commands in the same order and the same result as
\* start with H1 followed by continue with H2.
C1_ReplayDeterminismAnySplit == ex.started => SameAsFullRun

\* C1 (amended): the same, for every split in which H2 (what continue is
\* given) holds result events only.
C1_ReplayDeterminism == (ex.started /\ resultOnly) => SameAsFullRun

C1_Witness ==
    /\ ex.run = 3 /\ resultOnly
    /\ ex.result = Resolved("done")
    /\ Len(out) = 2 /\ Len(ex.commandsToEmit) = 0

CategoryOf(type) ==
    CASE type = "TaskScheduled" -> "task"
      [] type = "TimerScheduled" -> "timer"
      [] type = "ChildWorkflowScheduled" -> "child"
      [] type = "SignalSent" -> "sendSignal"
      [] type = "ExpectSignalStarted" -> "expectSignalTimeout"
      [] OTHER -> "none"

\* The request c was checked against a scheduled event of the history that
\* differs from it in seq, category, name or signalId.
Mismatch(c) ==
    /\ c.expected # NoEvent
    /\ ~ ( /\ c.expected.seq = c.seq
           /\ CategoryOf(c.expected.type) = c.call.kind
           /\ c.expected.name = c.call.name )

Faulted == \E i \in 1..Len(ex.calls) : Mismatch(ex.calls[i])

\* C5: a mismatch between a request and the scheduled event recorded for it
\* ends the run with a failed result carrying a DeterminismError, and the
\* executor stays stopped with that result in every later run.
C5_MismatchIsFatal ==
    Faulted => (ex.result = Failed("DeterminismError") /\ ex.stopped)

C5_Witness ==
    /\ Faulted /\ ex.run >= 2
    /\ \E i \in 1..Len(ex.calls) :
          Mismatch(ex.calls[i]) /\ ex.calls[i].expected.seq = ex.calls[i].seq

FaultedInRun == \E i \in 1..Len(ex.calls) : ex.calls[i].run = ex.run /\ Mismatch(ex.calls[i])

\* C6: a run that hits a determinism fault returns no commands: neither the
\* mismatching request nor any request made before the run ends.
C6_NoCommandsAfterFault == FaultedInRun => ex.commandsToEmit = <<>>

\* C7: a run that ends while scheduled events of the history are unmatched
\* fails the workflow with a determinism error.
C7_UnmatchedScheduledFails ==
    (ex.started /\ hasNext(ex.history, ex.expected, "scheduled"))
        => ex.result = Failed("DeterminismError")

\* C9: the i-th eventual requested in a run gets seq = i + nextSeq at the
\* beginning of the run; the numbering continues across runs, so the k-th
\* request overall has seq k - 1 and no seq is used twice.
C9_SeqAssignment ==
    \A i \in 1..Len(ex.calls) :
        /\ ex.calls[i].seq = ex.calls[i].idx + ex.calls[i].base
        /\ ex.calls[i].seq = i - 1
        /\ ex.calls[i].base = Cardinality({j \in 1..Len(ex.calls) : ex.calls[j].run < ex.calls[i].run})

C9_Witness ==
    /\ ex.run = 2
    /\ ex.applied = <<TimerCompleted(0)>>
    /\ ex.commandsToEmit = <<Command(TaskCall("a"), 1)>>

isWorkflowTimedOut(e) == e.type = "WorkflowTimedOut"

\* The position of the first WorkflowTimedOut among the applied events, 0 when
\* there is none.
timedOutAt(e) ==
    IF \E i \in 1..Len(e.applied) : isWorkflowTimedOut(e.applied[i])
    THEN CHOOSE i \in 1..Len(e.applied) :
            /\ isWorkflowTimedOut(e.applied[i])
            /\ \A j \in 1..(i - 1) : ~isWorkflowTimedOut(e.applied[j])
    ELSE 0

\* C11: once a WorkflowTimedOut is applied it is the last event applied, in
\* the run that applied it and in every following run; no request of the
\* workflow is made after it, the workflow does not advance, and the result
\* is the failure of the workflow's timeout.
C11_TimedOutPreempts ==
    timedOutAt(ex) # 0 =>
        /\ timedOutAt(ex) = Len(ex.applied)
        /\ \A i \in 1..Len(ex.calls) : ex.calls[i].at < timedOutAt(ex)
        /\ ex.result = Failed("WorkflowTimeout")
        /\ ex.stopped

\* A run after the one that timed out was given a result event that would
\* have resolved the task the workflow awaits.
C11_Witness ==
    /\ timedOutAt(ex) # 0 /\ ex.run >= 2
    /\ ex.workflow = <<<<TaskCall("a")>>>>
    /\ fed = <<WorkflowTimedOut("t1"), TaskSucceeded(0)>>

(***************************************************************************)
(* Properties of the service                                                *)
(***************************************************************************)
Terminal == {"SUCCEEDED", "FAILED"}

reportsOf(child) == SelectSeq(reported, LAMBDA r : r.child = child)

isDuplicate(history, batch, j) ==
    getEventId(batch[j]) \in {getEventId(history[i]) : i \in 1..Len(history)}
                              \cup {getEventId(batch[i]) : i \in 1..(j - 1)}

without(batch, j) == SubSeq(batch, 1, j - 1) \o SubSeq(batch, j + 1, Len(batch))

batchesOf(e) ==
    {SubSeq(queue[e], 1, k) : k \in 1..(IF Len(queue[e]) < MaxBatch THEN Len(queue[e])
                                         ELSE MaxBatch)}

\* C4: a task event whose id is already in the history (or earlier in the
\* batch) makes no difference to the run: the commands, the result and the
\* events of the run are those of the run without it.
C4_EventIdIdempotence ==
    \A e \in Executions : \A batch \in batchesOf(e) : \A j \in 1..Len(batch) :
        (isRegistered(workflowOf[e]) /\ isDuplicate(hist[e], batch, j)) =>
            progressWorkflow(workflowOf[e], hist[e], batch, now)
                = progressWorkflow(workflowOf[e], hist[e], without(batch, j), now)

\* A signal that is in the history is on the queue again.
C4_Witness ==
    /\ workflowOf["p"] = "sig"
    /\ queue["p"] # <<>> /\ queue["p"][1].type = "SignalReceived"
    /\ isDuplicate(hist["p"], queue["p"], 1)
    /\ ~progressWorkflow("sig", hist["p"], <<queue["p"][1]>>, now).threw

scheduledOf(e) == SelectSeq(hist[e], isScheduledEvent)

C10_DeterminismErrorMapped ==
    (lastRun.executionId \in Executions /\ lastRun.result = Failed("DeterminismError")) =>
        /\ lastRun.resultEvent.type = "WorkflowFailed"
        /\ lastRun.resultEvent.name = "DeterminismError"
        /\ store[lastRun.executionId].status = "FAILED"

C12_WorkflowTimeoutReached ==
    /\ lastRun.executionId = "p"
    /\ lastRun.result = Failed("WorkflowTimeout") /\ ~lastRun.threw
    /\ store["p"].status = "FAILED"

\* An event that gives the result of the command with a seq.
isResultRecord(e) == isCompletionEvent(e) /\ e.seq # -1

resultRecordsOf(events, seq) ==
    {i \in 1..Len(events) : isResultRecord(events[i]) /\ events[i].seq = seq}

RECURSIVE isSubsequence(_, _)
isSubsequence(a, b) ==
    IF a = <<>> THEN TRUE
    ELSE IF b = <<>> THEN FALSE
    ELSE IF Head(a) = Head(b) THEN isSubsequence(Tail(a), Tail(b))
    ELSE isSubsequence(a, Tail(b))

interpretEvents(historyEvents, taskEvents, baseTime) ==
    SelectSeq(withSyntheticEvents(historyEvents \o filterEvents(historyEvents, taskEvents),
                                  baseTime),
              isHistoryEvent)

\* C15: the events handed to the executor for a run hold each event id at
\* most once: a task event whose id is in the history or earlier in the batch
\* is dropped, and the events of the history are there once, in their order.
C15_DedupMerge ==
    \A e \in Executions : \A batch \in batchesOf(e) :
        \A i, j \in 1..Len(interpretEvents(hist[e], batch, now)) :
            getEventId(interpretEvents(hist[e], batch, now)[i])
                = getEventId(interpretEvents(hist[e], batch, now)[j]) => i = j

\* The seqs of the timers that are due at baseTime and have no TimerCompleted
\* among the events.
dueTimers(events, baseTime) ==
    {s \in {events[i].seq : i \in 1..Len(events)} :
        /\ \E i \in 1..Len(events) :
              /\ events[i].type = "TimerScheduled" /\ events[i].seq = s
              /\ events[i].time <= baseTime
        /\ \A i \in 1..Len(events) :
              ~(events[i].type = "TimerCompleted" /\ events[i].seq = s)}

\* The synthetic events are one TimerCompleted at baseTime for each due timer.
exactlyTheDueTimers(events, baseTime) ==
    LET synthetic == generateSyntheticEvents(events, baseTime)
    IN  /\ \A i \in 1..Len(synthetic) :
              /\ synthetic[i].type = "TimerCompleted"
              /\ synthetic[i].time = baseTime
              /\ synthetic[i].seq \in dueTimers(events, baseTime)
        /\ \A s \in dueTimers(events, baseTime) :
              Cardinality({i \in 1..Len(synthetic) : synthetic[i].seq = s}) = 1

\* C16: at the start of a run one TimerCompleted stamped with baseTime is
\* synthesized for each timer whose TimerScheduled is due at baseTime and that
\* has no TimerCompleted among the merged events, and none for another timer.
C16_SyntheticTimers ==
    \A e \in Executions : \A batch \in batchesOf(e) :
        exactlyTheDueTimers(hist[e] \o filterEvents(hist[e], batch), now)

\* The run of the execution with the batch at baseTime gets as far as the
\* executor: the workflow is registered and its WorkflowStarted is at hand.
reachesExecutor(e, batch) ==
    /\ isRegistered(workflowOf[e])
    /\ \E i \in 1..Len(hist[e] \o batch) : isWorkflowStarted((hist[e] \o batch)[i])

\* C17: a TimerCompleted with seq k is given to the workflow only in a run
\* whose loaded history holds a TimerScheduled with seq k, and only at a
\* baseTime that is not before the untilTime of that TimerScheduled.
C17_TimerMonotoneFiring ==
    \A e \in Executions : \A batch \in batchesOf(e) :
        reachesExecutor(e, batch) =>
            \A i \in 1..Len(interpretEvents(hist[e], batch, now)) :
                interpretEvents(hist[e], batch, now)[i].type = "TimerCompleted" =>
                    \E j \in 1..Len(hist[e]) :
                        /\ hist[e][j].type = "TimerScheduled"
                        /\ hist[e][j].seq = interpretEvents(hist[e], batch, now)[i].seq
                        /\ hist[e][j].time <= now

\* C18: at no time are two orchestrator runs of the same execution in
\* progress; runs of different executions may be in progress together.
C18_SingleInFlight ==
    \A o1 \in orchestrations : \A o2 \in orchestrations :
        (o1.status = "running" /\ o2.status = "running"
            /\ o1.executionId = o2.executionId) => o1 = o2

\* Two runs of different executions are in progress in different invocations
\* while a further task of one of them waits in the queue.
C18_Witness ==
    \E o1 \in orchestrations : \E o2 \in orchestrations :
        /\ o1.status = "running" /\ o2.status = "running"
        /\ o1.executionId # o2.executionId /\ o1.inv # o2.inv
        /\ \E m \in messagesOf(workflowQueue) :
               m \notin inFlight /\ m.executionId = o1.executionId

\* The first seq of stage s of a workflow program.
RECURSIVE stageStart(_, _)
stageStart(w, s) == IF s = 1 THEN 0 ELSE stageStart(w, s - 1) + Len(w[s - 1])

seqsOfStage(w, s) == stageStart(w, s)..(stageStart(w, s) + Len(w[s]) - 1)

stageOf(w, seq) == CHOOSE s \in 1..Len(w) : seq \in seqsOfStage(w, s)

callOf(e, seq) == e.calls[CHOOSE i \in 1..Len(e.calls) : e.calls[i].seq = seq]

\* The event gives the eventual of the logged request c a value.
settles(event, c) ==
    IF event.type = "SignalReceived"
    THEN c.call.kind \in {"expectSignal", "expectSignalTimeout"} /\ c.call.name = event.name
    ELSE event.seq = c.seq /\ EventTriggerResult(c.call, event).kind = "resolved"

\* Every eventual of stage s has its value once the first n applied events are applied.
stageSettledBy(e, s, n) ==
    \A seq \in seqsOfStage(e.workflow, s) :
        /\ \E i \in 1..Len(e.calls) : e.calls[i].seq = seq
        /\ \E i \in (callOf(e, seq).at + 1)..n : settles(e.applied[i], callOf(e, seq))

isPrefix(s1, s2) == Len(s1) <= Len(s2) /\ SubSeq(s2, 1, Len(s1)) = s1

\* C19: the result events are applied in the order of the event list, and the
\* requests of a stage are made right after the event that gives the previous
\* stage its last value, before any later event is applied.
C19_EventsInOrderRunToSuspension ==
    /\ isPrefix(ex.applied, SelectSeq(ex.history, isCompletionEvent))
    /\ \A i \in 1..Len(ex.calls) :
        IF stageOf(ex.workflow, ex.calls[i].seq) = 1
        THEN ex.calls[i].at = 0
        ELSE /\ stageSettledBy(ex, stageOf(ex.workflow, ex.calls[i].seq) - 1, ex.calls[i].at)
             /\ ~stageSettledBy(ex, stageOf(ex.workflow, ex.calls[i].seq) - 1,
                                ex.calls[i].at - 1)

\* A second stage was requested after the first of two applied events, and
\* the second event gave it its value.
C19_Witness ==
    /\ Len(ex.applied) >= 2
    /\ \E i \in 1..Len(ex.calls) :
        /\ stageOf(ex.workflow, ex.calls[i].seq) = 2
        /\ ex.calls[i].at = 1
        /\ settles(ex.applied[2], ex.calls[i])
        /\ ex.calls[i].seq \notin {a.seq : a \in ex.activeEventuals}

\* C20: over all deliveries of one task request at most one invocation of the
\* worker obtains the claim and runs the handler; the others run no handler
\* and submit no result event.
C20_FirstWriterWins ==
    \A request \in activities \cup claims :
        /\ stepsOf(workerLog, request, "handler") <= 1
        /\ stepsOf(workerLog, request, "finished") <= stepsOf(workerLog, request, "handler")
        /\ request \in working <=>
               (stepsOf(workerLog, request, "handler") = 1
                    /\ stepsOf(workerLog, request, "finished") = 0)

\* A request was delivered twice: one invocation ran the handler and
\* submitted its result, the other was turned away.
C20_Witness ==
    \E request \in claims :
        /\ stepsOf(workerLog, request, "handler") = 1
        /\ stepsOf(workerLog, request, "rejected") >= 1
        /\ stepsOf(workerLog, request, "finished") = 1

C22_ExactlyOneResultEvent ==
    \A l \in ended(workerLog) :
        (l.outcome # "async" /\ ~l.raised) =>
            /\ Len(l.events) = 1
            /\ l.outcome = "resolved" => l.events = <<TaskSucceeded(l.request.seq)>>
            /\ l.outcome = "threw" => l.events = <<TaskFailed(l.request.seq)>>

\* C23: an invocation whose handler returned the async result submits no
\* result event, and no result event of its seq is in the execution's queue.
C23_AsyncNoResultEvent ==
    \A l \in ended(workerLog) :
        l.outcome = "async" =>
            /\ l.events = <<>>
            /\ \A i \in 1..Len(queue[l.request.executionId]) :
                   queue[l.request.executionId][i].seq # l.request.seq

\* The handler of one task returned the async result, the handler of the
\* other task submitted its result.
C23_Witness ==
    \E l1 \in ended(workerLog) : \E l2 \in ended(workerLog) :
        /\ l1.outcome = "async"
        /\ l2.outcome = "resolved" /\ l2.events # <<>>
        /\ l1.request.executionId = l2.request.executionId

\* C24: when a claimed invocation has ended, whatever the exit path, the logs
\* were flushed and the heartbeat monitor of the claim is released.
C24_ScopedResources ==
    \A l \in ended(workerLog) :
        /\ l.flushes >= 1
        /\ heartbeatMonitor(l.request) \notin timers

\* C25: a run that tries to succeed or fail an execution that was already
\* terminal does not end with an exception, and the attempt changes neither
\* the execution record nor what was reported to the parent.
C25_TerminalUpdateNoOp ==
    (/\ lastRun.executionId \in Executions
     /\ lastRun.wasTerminal
     /\ isResultOfWorkflow(lastRun.resultEvent)) => ~lastRun.threw

StartRequests == [input : {"i1", "i2"}, byName : BOOLEAN, timeout : BOOLEAN]

\* The request names a workflow the service knows, or carries the workflow.
isStartable(r) == r.byName => isRegistered(workflowOf["p"])

startResponse(r) ==
    startExecution(TheWorld, "p", workflowOf["p"], r.byName, r.input,
                   IF r.timeout THEN now + 1 ELSE 0, NoParent)

\* C26: a start request for an existing execution with the input hash of its
\* record returns alreadyRunning, changes no execution record and submits no
\* WorkflowStarted event.
C26_StartIdempotent ==
    \A r \in StartRequests :
        (/\ isStartable(r)
         /\ store["p"].status # "NONE"
         /\ store["p"].inputHash = hashCode(r.input)) =>
            /\ startResponse(r).alreadyRunning
            /\ ~startResponse(r).threw
            /\ startResponse(r).w = TheWorld

\* The execution was started and has run, and a request with the same input
\* is answered with alreadyRunning.
C26_Witness ==
    /\ store["p"].status # "NONE"
    /\ hist["p"] # <<>>
    /\ \E r \in StartRequests :
        /\ isStartable(r)
        /\ store["p"].inputHash = hashCode(r.input)
        /\ startResponse(r).alreadyRunning

\* C27: a start request for an existing execution with another input hash
\* ends with an error, changes no execution record and submits no
\* WorkflowStarted event.
C27_StartConflict ==
    \A r \in StartRequests :
        (/\ isStartable(r)
         /\ store["p"].status # "NONE"
         /\ store["p"].inputHash # hashCode(r.input)) =>
            /\ startResponse(r).threw
            /\ ~startResponse(r).alreadyRunning
            /\ startResponse(r).w = TheWorld

\* The execution is in progress with the input i1 and a request with the
\* input i2 ends with an error.
C27_Witness ==
    /\ store["p"].status = "IN_PROGRESS"
    /\ store["p"].inputHash = hashCode("i1")
    /\ \E r \in StartRequests :
        /\ isStartable(r) /\ r.input = "i2"
        /\ startResponse(r).threw

\* C28: after an invocation of the orchestrator with a batch, every execution
\* of the batch was orchestrated, the history of every execution that did not
\* fail is stored, and failedExecutionIds holds exactly the executions whose
\* orchestration failed.
C28_PartialFailureIsolation ==
    lastRun # NoRun =>
        /\ \A i \in 1..Len(lastRun.batch) : hasOutcome(lastRun.outcomes, lastRun.batch[i])
        /\ \A i \in 1..Len(lastRun.outcomes) :
              ~lastRun.outcomes[i].threw =>
                  /\ lastRun.outcomes[i].history # <<>>
                  /\ hist[lastRun.outcomes[i].executionId] = lastRun.outcomes[i].history
        /\ failedExecutionIds =
              {lastRun.outcomes[i].executionId :
                  i \in {j \in 1..Len(lastRun.outcomes) : lastRun.outcomes[j].threw}}

\* In a batch of two executions the first one failed and the second one was
\* run and its history stored.
C28_Witness ==
    /\ lastRun # NoRun
    /\ Len(lastRun.outcomes) = 2
    /\ lastRun.outcomes[1].threw
    /\ ~lastRun.outcomes[2].threw
    /\ hist[lastRun.outcomes[2].executionId] # <<>>
    /\ failedExecutionIds = {lastRun.outcomes[1].executionId}

\* C29: for a task command with a timeout, the request to the task worker
\* and the schedule of the timeout are issued together: at no await of
\* scheduleActivity has one of the two been issued and the other not.
C29_IssuedConcurrently ==
    \A i \in 1..Len(scheduling) :
        scheduling[i].timeoutSeconds =>
            (scheduling[i].timeoutStarter # "none" <=> scheduling[i].activityStarter # "none")

\* The timer service holds a WorkflowTimedOut delivery for the execution.
timeoutPending(T, executionId) ==
    \E t \in T : t.executionId = executionId /\ t.event.type = "WorkflowTimedOut"

\* The stored history has no WorkflowStarted yet.
isFirstRun(history) == \A i \in 1..Len(history) : ~isWorkflowStarted(history[i])

\* The WorkflowStarted event of the batch carries a timeoutTime.
carriesTimeoutTime(events) ==
    \E i \in 1..Len(events) :
        /\ isWorkflowStarted(events[i])
        /\ \A j \in 1..(i - 1) : ~isWorkflowStarted(events[j])
        /\ events[i].time # 0

\* The step is a run of the orchestrator for the execution.
isRunOf(executionId) == runs' = runs + 1 /\ lastRun'.executionId = executionId

resultCategoryOf(type) ==
    CASE type \in {"TaskSucceeded", "TaskFailed", "TaskHeartbeatTimedOut"} -> "task"
      [] type = "TimerCompleted" -> "timer"
      [] type \in {"ChildWorkflowSucceeded", "ChildWorkflowFailed"} -> "child"
      [] type = "ExpectSignalTimedOut" -> "expectSignalTimeout"
      [] OTHER -> "none"

\* The i-th applied event has the seq of the logged request c and was applied
\* after the request was made.
answers(e, i, c) == e.applied[i].seq = c.seq /\ c.at < i

\* The i-th applied event is the one that resolved or failed the eventual of
\* the logged request c.
settledAt(e, i, c) ==
    /\ answers(e, i, c)
    /\ EventTriggerResult(c.call, e.applied[i]) # NoResult
    /\ \A j \in (c.at + 1)..(i - 1) :
          ~(answers(e, j, c) /\ EventTriggerResult(c.call, e.applied[j]) # NoResult)

\* The history holds, before the event, a scheduled event of the event's seq
\* and category.
hasPriorScheduled(history, event) ==
    \E k \in 1..Len(history) : \E j \in 1..(k - 1) :
        /\ history[k] = event
        /\ isScheduledEvent(history[j])
        /\ history[j].seq = event.seq
        /\ CategoryOf(history[j].type) = resultCategoryOf(event.type)

\* C31, first part: a result event with a seq that resolves or fails an
\* eventual has a scheduled event of its seq and category before it in the
\* history.
C31_AppliedHasPriorScheduled ==
    \A i \in 1..Len(ex.applied) : \A n \in 1..Len(ex.calls) :
        settledAt(ex, i, ex.calls[n]) => hasPriorScheduled(ex.history, ex.applied[i])

\* C31, second part: a result event whose category is not that of the request
\* at its seq does not resolve or fail the eventual, which stays active when
\* no other event of its seq and no signal it waits for was applied.
C31_OtherCategoryLeavesActive ==
    \A n \in 1..Len(ex.calls) :
        ( /\ \E i \in 1..Len(ex.applied) : answers(ex, i, ex.calls[n])
          /\ \A i \in 1..Len(ex.applied) :
                answers(ex, i, ex.calls[n]) =>
                    resultCategoryOf(ex.applied[i].type) # ex.calls[n].call.kind
          /\ \A i \in (ex.calls[n].at + 1)..Len(ex.applied) :
                ~(ex.applied[i].type = "SignalReceived"
                    /\ ex.applied[i].name = ex.calls[n].call.name) )
            => [seq |-> ex.calls[n].seq, call |-> ex.calls[n].call] \in ex.activeEventuals

\* C31: every result event that references a seq and is applied to the
\* workflow has a prior scheduled event with the same seq and of the
\* corresponding category, and a result event of another category than the
\* request at its seq never resolves or fails that eventual.
C31_ResultsCorrespond == C31_AppliedHasPriorScheduled /\ C31_OtherCategoryLeavesActive

\* The call with the seq is a condition that had no result when the i-th
\* result event was committed: its predicate had not become true and no
\* earlier event of its seq was committed.
pendingConditionAt(st, seq, i) ==
    /\ seq < Len(st.callTable)
    /\ st.callTable[seq + 1].call.kind = "condition"
    /\ \A k \in 1..Len(st.handled) :
          st.handled[k].signalId = st.callTable[seq + 1].call.name => st.handled[k].event >= i
    /\ \A j \in 1..(i - 1) : st.applied[j].seq # seq

\* C32: a ConditionTimedOut for a condition that is still pending resolves the
\* condition with false; neither the condition nor the workflow fails.
C32_ConditionTimeoutResolvesFalse ==
    \A i \in 1..Len(interp.applied) :
        ( /\ interp.applied[i].type = "ConditionTimedOut"
          /\ pendingConditionAt(interp, interp.applied[i].seq, i) ) =>
            /\ interp.callTable[interp.applied[i].seq + 1].result = Resolved("false")
            /\ ~isFailed(interp.result)

\* A workflow that awaits a condition was given the timeout of the condition
\* and ended with false.
C32_Witness ==
    /\ ~interp.threw
    /\ \E i \in 1..Len(interp.applied) :
          /\ interp.applied[i].type = "ConditionTimedOut"
          /\ pendingConditionAt(interp, 0, i)
    /\ Len(interp.program) = 1 /\ interp.program[1].op = "one"
    /\ interp.result = Resolved("false")
    /\ interp.calls # <<>>

\* The first committed event with the seq, 0 when there is none.
firstEventOf(st, seq) ==
    IF \E i \in 1..Len(st.applied) : st.applied[i].seq = seq
    THEN CHOOSE i \in 1..Len(st.applied) :
            /\ st.applied[i].seq = seq
            /\ \A j \in 1..(i - 1) : st.applied[j].seq # seq
    ELSE 0

\* The program is all([...]) of two tasks.
isAllOfTasks(st) ==
    /\ Len(st.program) = 1 /\ st.program[1].op = "all"
    /\ \A k \in 1..Len(st.program[1].calls) : st.program[1].calls[k].kind = "task"

\* C33: all([...]) is resolved only when every member has been resolved by an
\* event, and its output lists the members' values in the order of the
\* requests, whatever the order of the events.
C33_AllInRequestOrder ==
    isAllOfTasks(interp) =>
        /\ interp.result.kind = "resolved" =>
              /\ firstEventOf(interp, 0) # 0 /\ firstEventOf(interp, 1) # 0
              /\ interp.result.val =
                    "[" \o completionResult(interp.applied[firstEventOf(interp, 0)]).val
                        \o "," \o completionResult(interp.applied[firstEventOf(interp, 1)]).val
                        \o "]"
        /\ (firstEventOf(interp, 0) = 0 \/ firstEventOf(interp, 1) = 0) =>
              interp.result.kind # "resolved"

\* TaskSucceeded{1, "B"} then TaskSucceeded{0, "A"} gave ["A", "B"].
C33_Witness ==
    /\ isAllOfTasks(interp)
    /\ interp.applied = <<IEv("TaskSucceeded", 1, "", "B"), IEv("TaskSucceeded", 0, "", "A")>>
    /\ interp.result = Resolved("[A,B]")

\* No two of the events are SignalReceived events with the same id.
signalsOnce(events) ==
    \A i \in 1..Len(events) : \A j \in 1..Len(events) :
        ( /\ events[i].type = "SignalReceived" /\ events[j].type = "SignalReceived"
          /\ events[i].id = events[j].id ) => i = j

\* C34: in every run of an execution the workflow is given a SignalReceived
\* of one id at most once, whatever the stored history and the delivered batch
\* hold.
C34_SignalAppliedOnce ==
    \A e \in Executions : \A batch \in batchesOf(e) :
        reachesExecutor(e, batch) =>
            signalsOnce(interpret(lookupWorkflow(workflowOf[e]),
                                  interpretEvents(hist[e], batch, now)).applied)

\* The child that the command with the seq of the execution p started exists.
childStarted(seq) ==
    /\ store[childExecutionId("p", seq)].status # "NONE"
    /\ store[childExecutionId("p", seq)].parent = [executionId |-> "p", seq |-> seq]

dropAt(history, i) == SubSeq(history, 1, i - 1) \o SubSeq(history, i + 1, Len(history))

\* The i-th event of the history is a result event of a seq that an earlier
\* result event of the history has.
isLaterResult(history, i) ==
    /\ isInterpretResultEvent(history[i])
    /\ history[i].type # "SignalReceived"
    /\ \E j \in 1..(i - 1) :
          /\ isInterpretResultEvent(history[j])
          /\ history[j].type # "SignalReceived"
          /\ history[j].seq = history[i].seq

\* C36: a result event whose seq an earlier result event of the history has,
\* of the same type or of another, changes nothing: when interpret accepts
\* the history with it and without it, the workflow has the same result, the
\* call of that seq the same result and the caller is given the same
\* commands.
C36_FirstResultWins ==
    \A i \in 1..Len(interp.history) :
        ( /\ isLaterResult(interp.history, i)
          /\ ~interp.threw
          /\ ~interpretProgram(interp.program, dropAt(interp.history, i)).threw ) =>
            /\ interpretProgram(interp.program, dropAt(interp.history, i)).result = interp.result
            /\ interpretProgram(interp.program, dropAt(interp.history, i)).calls = interp.calls
            /\ interpretProgram(interp.program,
                  dropAt(interp.history, i)).callTable[interp.history[i].seq + 1].result
                  = interp.callTable[interp.history[i].seq + 1].result

\* The subscription k of an expect-signal call was without a result when the
\* e-th committed event was applied: no earlier event of its seq and no
\* earlier signal of its id after its registration was committed.
waitingAt(st, k, e) ==
    /\ st.signalSubscriptions[k].seq # -1
    /\ \A j \in 1..(e - 1) :
          /\ st.applied[j].seq # st.signalSubscriptions[k].seq
          /\ ( /\ st.applied[j].type = "SignalReceived"
               /\ st.applied[j].signalId = st.signalSubscriptions[k].signalId )
                => j <= st.signalSubscriptions[k].at

\* The subscriptions of the signal id registered before the e-th committed
\* event was applied: the handlers and the calls that were waiting.
registeredAt(st, e) ==
    {k \in 1..Len(st.signalSubscriptions) :
        /\ st.signalSubscriptions[k].signalId = st.applied[e].signalId
        /\ st.signalSubscriptions[k].at < e
        /\ st.signalSubscriptions[k].seq = -1 \/ waitingAt(st, k, e)}

\* C37: a committed SignalReceived reaches exactly the subscriptions of its
\* signal id that are registered when it is applied: each waiting
\* expect-signal call is resolved with the payload, each handler is called
\* once with the payload, and a subscription made afterwards is not reached.
C37_SignalReachesRegistered ==
    /\ \A d \in 1..Len(interp.delivered) :
            /\ interp.applied[interp.delivered[d].event].type = "SignalReceived"
            /\ interp.delivered[d].subs = registeredAt(interp, interp.delivered[d].event)
            /\ \A k \in registeredAt(interp, interp.delivered[d].event) :
                  interp.signalSubscriptions[k].seq # -1 =>
                      interp.callTable[interp.signalSubscriptions[k].seq + 1].result
                          = Resolved(interp.applied[interp.delivered[d].event].result)
            /\ Cardinality({h \in 1..Len(interp.handled) :
                               /\ interp.handled[h].event = interp.delivered[d].event
                               /\ interp.handled[h].payload
                                     = interp.applied[interp.delivered[d].event].result
                               /\ interp.handled[h].signalId
                                     = interp.applied[interp.delivered[d].event].signalId})
                  = Cardinality({k \in registeredAt(interp, interp.delivered[d].event) :
                                    interp.signalSubscriptions[k].seq = -1})
            /\ \A h \in 1..Len(interp.handled) :
                  interp.handled[h].event = interp.delivered[d].event =>
                      interp.handled[h].payload = interp.applied[interp.delivered[d].event].result
    /\ \A e \in 1..Len(interp.applied) :
          interp.applied[e].type = "SignalReceived" =>
              \E d \in 1..Len(interp.delivered) : interp.delivered[d].event = e

\* The signal x reached the handler and the two waiting calls; the second
\* signal came after all of them had been served and reached the handler only.
C37_Witness ==
    /\ Len(interp.program) = 1 /\ Len(interp.program[1].calls) = 3
    /\ Len(interp.delivered) = 2
    /\ interp.delivered[1].subs = {1, 2, 3}
    /\ interp.delivered[2].subs = {1}
    /\ interp.callTable[1].result = Resolved("x")
    /\ interp.callTable[2].result = Resolved("x")
    /\ interp.applied[2].result = "y"
    /\ Len(interp.handled) = 2

\* C38: getHistory after updateHistory gives the events that were written, in
\* their order, for every list of events, the empty list too.
C38_HistoryRoundTrip ==
    got.executionId # "" => ~got.threw /\ got.events = got.written

\* The first event of the execution was sent to its queue.
wasStarted(e) ==
    \/ \E i \in 1..Len(queue[e]) : isWorkflowStarted(queue[e][i])
    \/ \E i \in 1..Len(hist[e]) : isWorkflowStarted(hist[e][i])

\* C39: an execution whose record was created with the status IN_PROGRESS is
\* sent its WorkflowStarted at some time, also when the start that created
\* the record failed before it sent the event and the client starts the
\* execution again.
C39_StartedEventually ==
    \A e \in Executions : (store[e].status = "IN_PROGRESS") ~> wasStarted(e)

\* A call of start or continue was made in the step.
called(op) == lastCall' # lastCall /\ lastCall'.op = op

\* C40: start is accepted only by an executor that was not started, continue
\* only by a started executor without a run in progress; a call made
\* otherwise is rejected and leaves the next seq, the history and the result
\* of the workflow as they were.
C40_Lifecycle ==
    [][ /\ called("start") => (lastCall'.threw <=> ex.started)
        /\ called("continue") => (lastCall'.threw <=> (~ex.started \/ currentRun))
        /\ (lastCall' # lastCall /\ lastCall'.threw) =>
              /\ ex'.nextSeq = ex.nextSeq
              /\ ex'.history = ex.history
              /\ ex'.result = ex.result
              /\ ex'.started = ex.started
              /\ currentRun' = currentRun ]_vars

\* A continue was rejected while the run of an accepted continue that
\* requested a call was in progress.
C40_Witness ==
    /\ lastCall.op = "continue" /\ lastCall.threw
    /\ currentRun
    /\ ex.started /\ ex.run = 2
    /\ ex.nextSeq > 0

====
